---------------------------- MODULE Spec2Model ----------------------------
(***************************************************************************)
(* A model of the Disguise obfuscation engine (uDisguise/disguise):        *)
(* the cell codec and Framer (disguise/profile/profile.go, framing part),  *)
(* the Reassembler (disguise/framing/reassembler.go), the Scheduler        *)
(* (disguise/scheduler/scheduler.go) and the Manager that ties them        *)
(* together.                                                               *)
(*                                                                         *)
(* Integers wider than TLC's are kept as big-endian tuples of 16-bit       *)
(* words: a uint32 is <<hi, lo>>, an int64 is <<w3, w2, w1, w0>>.          *)
(* Time is counted in milliseconds.                                        *)
(***************************************************************************)
EXTENDS Integers, Sequences, FiniteSets, TLC

(***************************************************************************)
(* Program constants.                                                      *)
(***************************************************************************)
CellHeaderLen == 20
TypeData      == 1
TypeHandshake == 2
TypeControl   == 3
TypeDummy     == 4
MinCellSize   == 64
MaxCellSize   == 1400
FlagEOS       == 1

\* TrafficType (iota).
WebBrowsing    == 0
VideoStreaming == 1
FileDownload   == 2
Dynamic        == 3

U16 == 65536

(***************************************************************************)
(* Bounds of the model.                                                    *)
(***************************************************************************)
MaxPayload == 2      \* longest payload of a cell handed to the codec
MaxPadding == 2      \* longest padding of a cell handed to the codec
MaxData    == 3      \* longest message (in bytes) handed to the reassembler
MaxStray   == 1      \* deliveries out of a message's order (repeats, gaps)
MaxQueue   == 2      \* cells held by the scheduler specification's queue
MaxTicks   == 1      \* advances of the clock
MaxAppData == 2      \* longest application message handed to Fragment
MaxMsgs    == 1      \* calls of QueueApplicationData
MaxCover   == 1      \* iterations of the cover-traffic loop
MaxInbound == 3      \* calls of ProcessInboundTraffic

(***************************************************************************)
(* Byte-level helpers.                                                     *)
(***************************************************************************)
Zeros(n) == [i \in 1..n |-> 0]

\* Go's copy(dst[off:], src): copies min(len(dst)-off, len(src)) bytes.
Copy(dst, off, src) ==
    [i \in 1..Len(dst) |->
        IF i > off /\ i - off <= Len(src) THEN src[i - off] ELSE dst[i]]

\* s[a:b] of Go, 0-based half-open, for 0 <= a <= b <= Len(s).
Slice(s, a, b) == SubSeq(s, a + 1, b)

\* binary.Write(buf, binary.BigEndian, x) for the widths of the header.
U16Bytes(n) == <<n \div 256, n % 256>>
U32Bytes(w) == U16Bytes(w[1]) \o U16Bytes(w[2])
I64Bytes(w) == U16Bytes(w[1]) \o U16Bytes(w[2]) \o U16Bytes(w[3]) \o U16Bytes(w[4])

\* binary.Read(reader, binary.BigEndian, &x): the field at 0-based offset o.
U16At(d, o) == d[o + 1] * 256 + d[o + 2]
U32At(d, o) == <<U16At(d, o), U16At(d, o + 2)>>
I64At(d, o) == <<U16At(d, o), U16At(d, o + 2), U16At(d, o + 4), U16At(d, o + 6)>>

\* uint32 arithmetic on <<hi, lo>>, wrapping at 2^32.
U32Inc(w) == IF w[2] = U16 - 1 THEN <<(w[1] + 1) % U16, 0>> ELSE <<w[1], w[2] + 1>>
U32Dec(w) == IF w[2] = 0 THEN <<(w[1] + U16 - 1) % U16, U16 - 1>> ELSE <<w[1], w[2] - 1>>

(***************************************************************************)
(* The codec: Framer.EncodeCell and Framer.DecodeCell.                     *)
(***************************************************************************)
Panic == [kind |-> "panic"]
Err(m) == [kind |-> "err", msg |-> m]

\* The eight binary.Write calls of EncodeCell: 2+1+1+4+8+2+2+2 = 22 bytes.
Header(c) ==
    U16Bytes(c.CellID) \o <<c.Type>> \o <<c.Flags>> \o U32Bytes(c.Seq)
      \o I64Bytes(c.Timestamp) \o U16Bytes(c.PayloadLen)
      \o U16Bytes(c.PaddingLen) \o U16Bytes(c.RandOffset)

\* A slice expression out of range is a run-time panic.  Padding and payload
\* are allocated with make, so their capacity is their length.
EncodeCell(c) ==
    LET total == (c.PayloadLen + c.PaddingLen) % U16
        ro    == c.RandOffset
        x     == (c.RandOffset + c.PayloadLen) % U16
        tc0   == Zeros(total)
    IN  IF ro > total \/ ro > Len(c.Padding) \/ x > total
        THEN Panic
        ELSE LET tc1 == Copy(tc0, ro, c.Payload)
                 tc2 == Copy(tc1, 0, Slice(c.Padding, 0, ro))
                 tc3 == Copy(tc2, x, Slice(c.Padding, ro, Len(c.Padding)))
             IN  [kind |-> "ok", bytes |-> Header(c) \o tc3]

\* The eight binary.Read calls consume 22 bytes of the reader; the last one
\* fails on an input of 20 or 21 bytes.  The content region is taken at
\* data[CellHeaderLen:], whatever the reader consumed.  The input's capacity
\* is taken to be its length.
HeaderWireLen == 22

DecodeCell(data) ==
    IF Len(data) < CellHeaderLen THEN Err("cell data too short")
    ELSE IF Len(data) < HeaderWireLen
    THEN Err(IF Len(data) = CellHeaderLen THEN "EOF" ELSE "unexpected EOF")
    ELSE
    LET pl   == U16At(data, 16)
        padl == U16At(data, 18)
        ro   == U16At(data, 20)
        pp   == Slice(data, CellHeaderLen, Len(data))
        x    == (ro + pl) % U16
    IN  IF Len(pp) # (pl + padl) % U16 THEN Err("cell content length mismatch")
        ELSE IF ro > x \/ x > Len(pp) \/ ro > Len(pp) \/ ro > padl
        THEN Panic
        ELSE LET payload == Copy(Zeros(pl), 0, Slice(pp, ro, x))
                 pad1    == Copy(Zeros(padl), 0, Slice(pp, 0, ro))
                 pad2    == Copy(pad1, ro, Slice(pp, x, Len(pp)))
             IN  [kind |-> "ok",
                  cell |-> [CellID     |-> U16At(data, 0),
                            Type       |-> data[3],
                            Flags      |-> data[4],
                            Seq        |-> U32At(data, 4),
                            Timestamp  |-> I64At(data, 8),
                            PayloadLen |-> pl,
                            PaddingLen |-> padl,
                            RandOffset |-> ro,
                            Payload    |-> payload,
                            Padding    |-> pad2]]

(***************************************************************************)
(* Inputs of the codec specification.                                      *)
(***************************************************************************)
PayloadBytes == {7, 200}
PaddingBytes == {0, 65}

SeqsUpTo(S, n) == UNION {[1..k -> S] : k \in 0..n}

\* Header fields: every field takes two values, the second using both bytes
\* of each 16-bit word.
HeaderSamples ==
    { [CellID |-> 0,     Type |-> TypeDummy,   Flags |-> 0,
       Seq |-> <<0, 0>>,         Timestamp |-> <<0, 0, 0, 0>>],
      [CellID |-> 4660,  Type |-> TypeData,    Flags |-> FlagEOS,
       Seq |-> <<1, 65535>>,     Timestamp |-> <<0, 410, 4660, 22136>>],
      [CellID |-> 65535, Type |-> TypeControl, Flags |-> 0,
       Seq |-> <<65535, 65535>>, Timestamp |-> <<65535, 65535, 65535, 65535>>] }

MkCell(h, payload, padding, ro) ==
    [CellID     |-> h.CellID,
     Type       |-> h.Type,
     Flags      |-> h.Flags,
     Seq        |-> h.Seq,
     Timestamp  |-> h.Timestamp,
     PayloadLen |-> Len(payload),
     PaddingLen |-> Len(padding),
     RandOffset |-> ro,
     Payload    |-> payload,
     Padding    |-> padding]

NoCell == [kind |-> "none"]

(***************************************************************************)
(* Profiles: GetProfile.  Durations are in milliseconds, EWMAAlpha is in   *)
(* hundredths.                                                             *)
(***************************************************************************)
GetProfile(t) ==
    CASE t = WebBrowsing ->
           [Type |-> WebBrowsing, MinCellSize |-> MinCellSize,
            MaxCellSize |-> MaxCellSize, ProbingInterval |-> 15000,
            LatencyJitter |-> 20, EWMAAlpha |-> 10, Weights |-> {WebBrowsing}]
      [] t = VideoStreaming ->
           [Type |-> VideoStreaming, MinCellSize |-> MinCellSize,
            MaxCellSize |-> MaxCellSize, ProbingInterval |-> 10000,
            LatencyJitter |-> 10, EWMAAlpha |-> 20,
            Weights |-> {VideoStreaming}]
      [] t = FileDownload ->
           [Type |-> FileDownload, MinCellSize |-> MinCellSize,
            MaxCellSize |-> MaxCellSize, ProbingInterval |-> 30000,
            LatencyJitter |-> 50, EWMAAlpha |-> 5,
            Weights |-> {FileDownload}]
      [] OTHER ->
           [Type |-> Dynamic, MinCellSize |-> MinCellSize,
            MaxCellSize |-> MaxCellSize, ProbingInterval |-> 15000,
            LatencyJitter |-> 20, EWMAAlpha |-> 10,
            Weights |-> {WebBrowsing, VideoStreaming, FileDownload}]

\* The float64 currentLoad is kept in hundred-thousandths, EWMAAlpha in
\* hundredths.
LoadScale == 100000
AlphaScale == 100

\* What a distribution's Sample() can return: int(math.Max(1, x)) for a
\* float64 x, which is any int from 1 on and, for the x = +Inf the Pareto
\* sample reaches when rand.Float64() is 0, whatever int the conversion of
\* an out-of-range float gives (a negative number on amd64).
DistributionSamples == {-5, 1, 700, 5000}

\* The length GetNextPayloadLength returns for a sample, without the upper
\* limit of lines 170 to 172.
LengthUnlimited(p, length) == IF length < 1 THEN 1 ELSE length

\* The length GetNextPayloadLength returns for a sample (lines 170 to 175).
LengthOf(p, length) ==
    LET limited == IF length > p.MaxCellSize - CellHeaderLen
                   THEN p.MaxCellSize - CellHeaderLen ELSE length
    IN  IF limited < 1 THEN 1 ELSE limited

\* Profile.updateLoad: the values currentLoad can take, the float64 result
\* being the exact one rounded to a neighbour.
UpdateLoad(p, currentLoad, latest) ==
    LET normalized == (latest * LoadScale) \div p.MaxCellSize
        exact == currentLoad * (AlphaScale - p.EWMAAlpha)
                    + normalized * p.EWMAAlpha
    IN  {exact \div AlphaScale, (exact + AlphaScale - 1) \div AlphaScale}

(***************************************************************************)
(* The Scheduler.  A scheduler is [profile, queue, lastSendTime].          *)
(***************************************************************************)
\* NewScheduler at time t.
NewScheduler(t) ==
    [profile |-> GetProfile(WebBrowsing), queue |-> <<>>, lastSendTime |-> t]

\* rand.Int63n(int64(s.profile.LatencyJitter)): the draws the model takes.
JitterSamples(s) == {0, s.profile.LatencyJitter - 1}

\* A ScheduleCell that appends the cell twice.
ScheduleCellTwice(s, cell, jitter, t) ==
    [s EXCEPT !.queue = @ \o <<cell, cell>>, !.lastSendTime = t + jitter]

\* ScheduleCell at time t with the jitter drawn.
ScheduleCell(s, cell, jitter, t) ==
    [s EXCEPT !.queue = Append(@, cell), !.lastSendTime = t + jitter]

Nil == [kind |-> "nil"]

\* GetNextCell popping the cell appended last instead of the first one.
GetNextCellLast(s, t) ==
    IF t < s.lastSendTime THEN [sched |-> s, cell |-> Nil]
    ELSE IF Len(s.queue) > 0
    THEN [sched |-> [s EXCEPT !.queue = SubSeq(@, 1, Len(@) - 1)],
          cell  |-> [kind |-> "cell", cell |-> s.queue[Len(s.queue)]]]
    ELSE [sched |-> s, cell |-> Nil]

\* GetNextCell at time t: the scheduler after the call and what it returned.
GetNextCell(s, t) ==
    IF t < s.lastSendTime THEN [sched |-> s, cell |-> Nil]
    ELSE IF Len(s.queue) > 0
    THEN [sched |-> [s EXCEPT !.queue = Tail(@)],
          cell  |-> [kind |-> "cell", cell |-> Head(s.queue)]]
    ELSE [sched |-> s, cell |-> Nil]

RECURSIVE U32Plus(_, _)
U32Plus(w, n) == IF n = 0 THEN w ELSE U32Plus(U32Inc(w), n - 1)

(***************************************************************************)
(* The Framer.  A framer is [profile, seq].  Every random draw of the code *)
(* is a choice among the samples named here.                               *)
(***************************************************************************)
NewFramer(p) == [profile |-> p, seq |-> <<0, 0>>]

\* Profile.GetNextPayloadLength: any length in 1..MaxCellSize-CellHeaderLen.
\* (The Pareto distribution of the file-download type starts at 500.)
PayloadLenSamples(p) ==
    IF p.Weights = {FileDownload}
    THEN {500, p.MaxCellSize - CellHeaderLen}
    ELSE {1, p.MaxCellSize - CellHeaderLen}

\* Profile.GetNextCellSize: rand.Intn(Max-Min)+Min, in Min..Max-1.
CellSizeSamples(p) == {p.MinCellSize, p.MinCellSize + 1}

\* Framer.generateRandomOffset(max): 0 when max <= 1, else rand.Intn(max-1).
RandomOffsetSamples(max) == IF max <= 1 THEN {0} ELSE {0, max - 2}

\* Framer.generateCellID: any uint16.
CellIDSamples == {0, 513}

\* The profile type Fragment and CreateDummyCell infer for the padding.
InferredType(p) ==
    IF Cardinality(p.Weights) = 1 THEN CHOOSE t \in p.Weights : TRUE
    ELSE WebBrowsing

\* Framer.generatePadding: draw.shape is rand.Intn(2) for the web-browsing
\* type (0: base64 text then random bytes, 1: random bytes with every tenth
\* byte zero); draw.fill stands for the random bytes.
PaddingDraws(type) ==
    IF type = WebBrowsing
    THEN {[shape |-> 0, fill |-> 200], [shape |-> 1, fill |-> 200]}
    ELSE {[shape |-> 2, fill |-> 200]}

Base64Char(b) == 65 + (b % 26)

GeneratePadding(length, type, draw) ==
    IF length <= 0 THEN <<>>
    ELSE IF type = WebBrowsing /\ draw.shape = 0
    THEN [i \in 1..length |->
            IF i <= (length \div 4) * 4 THEN Base64Char(draw.fill) ELSE draw.fill]
    ELSE IF type = WebBrowsing /\ draw.shape = 1
    THEN [i \in 1..length |-> IF (i - 1) % 10 = 0 THEN 0 ELSE draw.fill]
    ELSE [i \in 1..length |-> draw.fill]

\* time.Now().UnixNano() / 1e6 at clock t, as an int64.
TimestampAt(t) == <<0, 410, 4660, t % U16>>

\* What one iteration of Fragment's loop draws.
FragmentDraws(p) ==
    UNION { { [plen |-> a, size |-> b, ro |-> c, pad |-> d] :
                a \in PayloadLenSamples(p),
                c \in RandomOffsetSamples(b % U16),
                d \in PaddingDraws(InferredType(p)) } :
            b \in CellSizeSamples(p) }

\* The padding length of the first revision of Fragment (lines 301, 302):
\* the difference as it comes.
PaddingLenUnclamped(totalCellSize, payloadLen) ==
    totalCellSize - CellHeaderLen - payloadLen

\* A padding that is never empty.
PaddingLenAtLeastOne(totalCellSize, payloadLen) ==
    LET paddingLen == totalCellSize - CellHeaderLen - payloadLen
    IN  IF paddingLen < 1 THEN 1 ELSE paddingLen

\* The padding length Fragment computes (lines 511 to 516).
PaddingLenOf(totalCellSize, payloadLen) ==
    LET paddingLen == totalCellSize - CellHeaderLen - payloadLen
    IN  IF paddingLen < 0 THEN 0 ELSE paddingLen

\* The cell one iteration of Fragment's loop builds at payloadOffset off.
FragmentCell(p, data, off, seq, id, t, draw) ==
    LET eos        == off + draw.plen > Len(data)
        payloadLen == IF eos THEN Len(data) - off ELSE draw.plen
        paddingLen == PaddingLenOf(draw.size, payloadLen)
    IN  [CellID     |-> id,
         Type       |-> TypeData,
         Flags      |-> IF eos THEN FlagEOS ELSE 0,
         Seq        |-> seq,
         Timestamp  |-> TimestampAt(t),
         PayloadLen |-> payloadLen % U16,
         PaddingLen |-> paddingLen % U16,
         RandOffset |-> draw.ro,
         Payload    |-> Slice(data, off, off + payloadLen),
         Padding    |-> GeneratePadding(paddingLen, InferredType(p), draw.pad)]

\* Fragment's loop from payloadOffset off: every sequence of cells it can
\* return.
RECURSIVE FragmentFrom(_, _, _, _, _, _)
FragmentFrom(p, data, off, seq, id, t) ==
    IF off >= Len(data) THEN {<<>>}
    ELSE UNION { LET cell == FragmentCell(p, data, off, seq, id, t, draw)
                 IN  { <<cell>> \o rest :
                        rest \in FragmentFrom(p, data, off + Len(cell.Payload),
                                              U32Inc(seq), id, t) } :
                 draw \in FragmentDraws(p) }

\* Framer.Fragment at time t: the cell sequences it can return; the framer's
\* seq advances by the number of cells.
Fragment(f, data, t) ==
    UNION { FragmentFrom(f.profile, data, 0, f.seq, id, t) : id \in CellIDSamples }

\* Profile.TrafficWeights, in hundredths.
TrafficWeights(p) ==
    [t \in p.Weights |->
        IF Cardinality(p.Weights) = 1 THEN 100
        ELSE IF t = WebBrowsing THEN 70
        ELSE IF t = VideoStreaming THEN 20
        ELSE 10]

\* The orders in which a range loop can visit the keys of the map.
KeyOrders(p) ==
    { o \in [1..Cardinality(p.Weights) -> p.Weights] :
        \A i, j \in DOMAIN o : i # j => o[i] # o[j] }

\* The loop of selectTrafficType from the k-th key on, with the weights
\* of the keys before it summed up in cumulative.
RECURSIVE SelectFrom(_, _, _, _, _)
SelectFrom(w, r, order, k, cumulative) ==
    IF k > Len(order) THEN WebBrowsing
    ELSE IF r <= cumulative + w[order[k]] THEN order[k]
    ELSE SelectFrom(w, r, order, k + 1, cumulative + w[order[k]])

\* Profile.selectTrafficType with the draw r, the keys visited in order.
SelectTrafficType(p, r, order) ==
    IF Cardinality(p.Weights) = 1 THEN order[1]
    ELSE SelectFrom(TrafficWeights(p), r, order, 1, 0)

\* A counter that starts again with every call of Fragment.
AfterFragmentPerCall(f, cells) == [f EXCEPT !.seq = <<0, 0>>]

AfterFragment(f, cells) == [f EXCEPT !.seq = U32Plus(@, Len(cells))]

\* The cells CreateDummyCell can return when GetNextCellSize returns size.
DummyCellsOfSize(f, t, size) ==
    LET paddingLen == size - CellHeaderLen
    IN  { [CellID     |-> 0,
           Type       |-> TypeDummy,
           Flags      |-> 0,
           Seq        |-> <<0, 0>>,
           Timestamp  |-> TimestampAt(t),
           PayloadLen |-> 0,
           PaddingLen |-> paddingLen % U16,
           RandOffset |-> ro,
           Payload    |-> <<>>,
           Padding    |-> GeneratePadding(paddingLen,
                              InferredType(f.profile), d)] :
            ro \in RandomOffsetSamples(size % U16),
            d \in PaddingDraws(InferredType(f.profile)) }

\* Framer.CreateDummyCell at time t: the cells it can return.
CreateDummyCell(f, t) ==
    UNION { DummyCellsOfSize(f, t, size) : size \in CellSizeSamples(f.profile) }

\* The application messages of the specifications: the prefixes of "Hello".
Hello == <<72, 101, 108, 108, 111>>
AppMessages == { SubSeq(Hello, 1, n) : n \in 0..MaxAppData }

(***************************************************************************)
(* The Reassembler (multi-stream): Reassembler.ProcessCell.                *)
(* streams is the map CellID -> ReassemblyStream, a function whose domain  *)
(* is the set of keys present.                                             *)
(***************************************************************************)
U32Less(a, b) == a[1] < b[1] \/ (a[1] = b[1] /\ a[2] < b[2])

\* A weaker check, in the manner of the single-stream variant: only a seq
\* below the next one is refused, a seq beyond it is accepted.
SeqNotBefore(seq, lastSeq) == ~U32Less(seq, U32Inc(lastSeq))

\* cell.Seq != stream.lastSeq+1 is refused.
SeqAccepted(seq, lastSeq) == seq = U32Inc(lastSeq)

\* One stream shared by every CellID.
StreamKeyShared(cell) == 0

\* streams[cell.CellID]
StreamKey(cell) == cell.CellID

MapPut(f, k, v) == [x \in DOMAIN f \cup {k} |-> IF x = k THEN v ELSE f[x]]
MapDel(f, k)    == [x \in DOMAIN f \ {k} |-> f[x]]
EmptyMap        == [x \in {} |-> 0]

Incomplete  == [kind |-> "incomplete"]
Complete(p) == [kind |-> "ok", payload |-> p]

\* Returns the new map and what ProcessCell returned.
ProcessCell(st, cell) ==
    LET key    == StreamKey(cell)
        stream == IF key \in DOMAIN st
                  THEN st[key]
                  ELSE [buffer |-> <<>>, lastSeq |-> U32Dec(cell.Seq)]
        st1    == MapPut(st, key, stream)
    IN  IF ~SeqAccepted(cell.Seq, stream.lastSeq)
        THEN [streams |-> st1,
              res |-> Err("out-of-order or invalid cell received for stream")]
        ELSE LET buf == stream.buffer \o cell.Payload
             IN  IF cell.Flags % 2 = 1
                 THEN [streams |-> MapDel(st1, key), res |-> Complete(buf)]
                 ELSE [streams |-> MapPut(st1, key,
                                      [buffer |-> buf, lastSeq |-> cell.Seq]),
                       res |-> Incomplete]

(***************************************************************************)
(* Messages handed to the reassembler specification: a message is the      *)
(* sequence of Data cells of one CellID, its seqs consecutive, the         *)
(* end-of-stream flag on its last cell only.                               *)
(***************************************************************************)
RECURSIVE Flatten(_)
Flatten(ss) == IF ss = <<>> THEN <<>> ELSE Head(ss) \o Flatten(Tail(ss))

\* The ways of cutting a sequence into non-empty consecutive chunks.
RECURSIVE Chunkings(_)
Chunkings(d) ==
    IF d = <<>> THEN {<<>>}
    ELSE UNION { { <<SubSeq(d, 1, k)>> \o rest :
                     rest \in Chunkings(SubSeq(d, k + 1, Len(d))) } :
                 k \in 1..Len(d) }

NoTimestamp == <<0, 0, 0, 0>>

MessageCells(id, seq0, chunks) ==
    [i \in 1..Len(chunks) |->
        MkCell([CellID |-> id, Type |-> TypeData,
                Flags |-> IF i = Len(chunks) THEN FlagEOS ELSE 0,
                Seq |-> U32Plus(seq0, i - 1), Timestamp |-> NoTimestamp],
               chunks[i], <<>>, 0)]

NonEmptySeqs(S, n) == SeqsUpTo(S, n) \ {<<>>}

FirstMessages ==
    { MessageCells(id, s0, ch) :
        id \in {0, 513}, s0 \in {<<0, 0>>},
        ch \in UNION { Chunkings(d) : d \in NonEmptySeqs({65, 66}, MaxData) } }

SecondMessages ==
    { MessageCells(id, s0, ch) :
        id \in {65535}, s0 \in {<<0, 65535>>, <<65535, 65535>>},
        ch \in { << <<97>> >>, << <<97>>, <<98>> >> } }

MessageData(cells) == Flatten([i \in 1..Len(cells) |-> cells[i].Payload])

VARIABLES
    cCell,      \* codec: the cell handed to EncodeCell
    cEnc,       \* codec: what EncodeCell returned
    cDec,       \* codec: what DecodeCell returned on EncodeCell's bytes
    streams,    \* Reassembler.streams
    rRes,       \* what the last ProcessCell returned
    rMsgs,      \* reassembler harness: the two messages in flight
    rNext,      \* harness: per message, the index of its next cell in order
    rLast,      \* harness: <<message, index>> of the last cell delivered
    rStray,     \* harness: deliveries made out of a message's order so far
    rRej,       \* harness: per message, how many of its cells were refused
    rClean,     \* harness: per message, no cell of it was delivered out of
                \* order while its stream did not exist
    rLog,       \* harness of the stream specification: the calls of
                \* ProcessCell so far, each with the cell and what it returned
    now,        \* the clock (time.Now), in milliseconds
    ticks,      \* how many times the clock has advanced
    sched,      \* the Scheduler
    qlog,       \* history: for each queued cell, the sendTime ScheduleCell
                \* computed for it and the instant it was enqueued
    sRet,       \* what GetNextCell returned, until the next operation
    framer,     \* the Framer
    fData,      \* pipeline: the data handed to Fragment
    fCells,     \* pipeline: the cells Fragment returned
    fIdx,       \* pipeline: how many of them went through the pipeline
    fOut,       \* pipeline: what the last cell's pass returned
    mgr,        \* the Manager: profile, observationQueue, inboundQueue,
                \* lastProfileSwitch (its framer, scheduler and reassembler
                \* are framer, sched and streams)
    wire,       \* the byte strings GetOutboundTraffic returned, in order
    fedLog,     \* the inputs ProcessInboundTraffic was called with, in order
    mQueued,    \* the data QueueApplicationData was called with, in order
    mCover,     \* iterations of the cover-traffic loop so far
    mRead,      \* all bytes ReadApplicationData returned so far
    mRet,       \* what the last Manager operation returned
    crashed,    \* a panic ended the process
    peer,       \* the byte strings the peer has sent
    mDone,      \* history: the messages ProcessCell completed, in order
    mViews,     \* the byte slices ReadApplicationData returned, in order,
                \* with the content the application finds in them now
    fDraw,      \* padding: the values drawn for each cell of fCells
    lock,       \* Manager.mu: the process holding it, or "none"
    pc,         \* per process: the operation it is in and where it stands
    races,      \* history: accesses to Manager fields made without the lock
    load,       \* Profile.currentLoad of the framer's profile (fixed point)
    loadCalls,  \* calls of GetNextPayloadLength so far
    lenRet,     \* what the last GetNextPayloadLength returned
    hmm,        \* an HMMClassifier: its probability and count tables
    hRet,       \* what the last Predict or Train returned
    hLog,
    selLog,     \* the calls of selectTrafficType: weights, draw and result
       \* history: the calls of Train and Predict, with the tables
                \* they found
    sLog        \* history: the calls of ScheduleCell and the cells
                \* GetNextCell returned, in order

codecVars == <<cCell, cEnc, cDec>>
reasmVars == <<streams, rRes>>
harnessVars == <<rMsgs, rNext, rLast, rStray, rRej, rClean, rLog>>
schedVars == <<now, ticks, sched, qlog, sRet>>
frameVars == <<framer, fData, fCells, fIdx, fOut, fDraw>>
mgrVars == <<mgr, wire, fedLog, mQueued, mCover, mRead, mRet, crashed, peer,
            mDone, mViews>>
lockVars == <<lock, pc, races>>
statVars == <<load, loadCalls, lenRet, hmm, hRet, hLog, selLog>>
vars == <<cCell, cEnc, cDec, streams, rRes, rMsgs, rNext, rLast, rStray, rRej,
          rClean, rLog, now, ticks, sched, qlog, sRet, framer, fData, fCells, fIdx,
          fOut, mgr, wire, fedLog, mQueued, mCover, mRead, mRet, crashed,
          peer, mDone, mViews, fDraw, lock, pc, races, load, loadCalls,
          lenRet, hmm, hRet, hLog, selLog, sLog>>

CodecIdle == cCell = NoCell /\ cEnc = NoCell /\ cDec = NoCell
ReasmNew  == streams = EmptyMap /\ rRes = NoCell
HarnessIdle ==
    /\ rMsgs = <<>>
    /\ rNext = <<>>
    /\ rLast = <<0, 0>>
    /\ rStray = 0
    /\ rRej = <<>>
    /\ rClean = <<>>
    /\ rLog = <<>>
SchedNew ==
    /\ now = 0
    /\ ticks = 0
    /\ sched = NewScheduler(0)
    /\ qlog = <<>>
    /\ sRet = NoCell
    /\ sLog = <<>>

(***************************************************************************)
(* The Manager.                                                            *)
(***************************************************************************)
\* NewManager at time t; its framer is NewFramer(GetProfile(Dynamic)), its
\* scheduler NewScheduler(t), its reassembler has no stream.
NewManager(t) ==
    [profile           |-> GetProfile(Dynamic),
     observationQueue  |-> <<>>,
     inboundQueue      |-> <<>>,
     lastProfileSwitch |-> t]

DiscretizePayloadSize(length) ==
    IF length < 200 THEN 0 ELSE IF length < 800 THEN 1 ELSE 2

ErrNoOutboundTraffic == Err("no outbound traffic available")

\* m.inboundQueue is a bytes.Buffer.  ReadApplicationData returns
\* inboundQueue.Bytes(), a slice of the buffer's own array from its start,
\* and then calls Reset, which keeps the array and sets the length to 0; the
\* next Write puts its bytes into the same array from the buffer's length
\* on (the array has room for 64 bytes from the first Write on, more than
\* the inputs of the specifications ever fill).  WrittenOver(view, at, w) is
\* what a slice returned earlier holds after w was written at length at.
WrittenOver(view, at, w) ==
    [k \in 1..Len(view) |->
        IF at < k /\ k <= at + Len(w) THEN w[k - at] ELSE view[k]]

\* The loop of QueueApplicationData: ScheduleCell for each cell in turn,
\* js[i] being the jitter drawn for the i-th.
\* A loop that stops after the first cell.
ScheduleFirst(s, cells, js, t) ==
    IF cells = <<>> THEN s ELSE ScheduleCell(s, Head(cells), Head(js), t)

RECURSIVE ScheduleAll(_, _, _, _)
ScheduleAll(s, cells, js, t) ==
    IF cells = <<>> THEN s
    ELSE ScheduleAll(ScheduleCell(s, Head(cells), Head(js), t),
                     Tail(cells), Tail(js), t)

Observations(cells) ==
    [i \in 1..Len(cells) |-> DiscretizePayloadSize(Len(cells[i].Payload))]

(***************************************************************************)
(* Bytes arriving from the network that DecodeCell accepts.  DecodeCell    *)
(* reads the three length fields from bytes 16..21 and takes the content   *)
(* from byte 20 on, so the two bytes of the RandOffset field are also the  *)
(* first two bytes of the content: WireImage(c) is the byte string         *)
(* DecodeCell reads as the cell c, for a cell with RandOffset 2 and the    *)
(* padding <<0, 2>>.                                                       *)
(***************************************************************************)
WireImage(c) == SubSeq(Header(c), 1, CellHeaderLen) \o c.Padding \o c.Payload

PeerCell(id, type, flags, seq, payload) ==
    MkCell([CellID |-> id, Type |-> type, Flags |-> flags, Seq |-> seq,
            Timestamp |-> NoTimestamp], payload, <<0, 2>>, 2)

\* The message "Hi" in two cells, a cover cell, and the message "!" in one
\* cell.
PeerMessage ==
    << PeerCell(4660, TypeData, 0, <<0, 0>>, <<72>>),
       PeerCell(4660, TypeData, FlagEOS, <<0, 1>>, <<105>>) >>
PeerDummy == PeerCell(0, TypeDummy, 0, <<0, 0>>, <<>>)
PeerSingle == PeerCell(513, TypeData, FlagEOS, <<0, 7>>, <<33>>)

\* A byte string of 22 bytes whose PayloadLen field is 65535 and whose
\* PaddingLen field is 3: two bytes follow the 20-byte header, 65538 are
\* announced.
PeerOverlong ==
    SubSeq(Header(PeerSingle), 1, 16) \o U16Bytes(65535) \o U16Bytes(3)
        \o U16Bytes(0)

\* What the peer sends: the cells above, a byte string cut short, and the
\* byte string with the overlong announcement.
PeerPackets ==
    << WireImage(PeerMessage[1]), WireImage(PeerMessage[2]),
       WireImage(PeerDummy), WireImage(PeerSingle),
       SubSeq(WireImage(PeerDummy), 1, CellHeaderLen - 1), PeerOverlong >>

FrameNew ==
    /\ framer = NewFramer(GetProfile(Dynamic))
    /\ fData = <<>>
    /\ fCells = <<>>
    /\ fIdx = 0
    /\ fOut = NoCell
    /\ fDraw = <<>>
MgrIdle ==
    /\ mgr = NewManager(0)
    /\ wire = <<>>
    /\ fedLog = <<>>
    /\ mQueued = <<>>
    /\ mCover = 0
    /\ mRead = <<>>
    /\ mRet = NoCell
    /\ crashed = FALSE
    /\ mDone = <<>>
    /\ mViews = <<>>
MgrNew == MgrIdle /\ peer = <<>>

\* The processes that use the Manager: the application's call sites and the
\* two loops NewManager starts.  The Manager's operations below say what
\* happens between Lock and Unlock; who holds the lock is said by the
\* specification.  Outside the specification of the lock every operation
\* runs from Lock to Unlock in one step, the lock free before and after.
MgrProcs == {"app", "cover", "profiling"}
Idle == [op |-> "none", at |-> "idle", arg |-> Nil]
LockIdle ==
    /\ lock = "none"
    /\ pc = [p \in MgrProcs |-> Idle]
    /\ races = {}

(***************************************************************************)
(* The HMMClassifier with its tables.  Epsilon is 1e-9 and every count the *)
(* specifications reach is below ten, so a probability is kept exactly, as *)
(* a quotient [n, d] of two polynomials in Epsilon with integer            *)
(* coefficients (<<c0, c1, ...>> is c0 + c1*Epsilon + ...), and two        *)
(* quantities compare as their polynomials do at the lowest power of       *)
(* Epsilon where they differ.  Predict adds logarithms; the model          *)
(* multiplies the probabilities, which orders the scores the same way.     *)
(* States and buckets are numbered from 1 in the tables: state i is        *)
(* States[i], bucket b + 1 is observation b.                               *)
(***************************************************************************)
\* HMMClassifier.States.
States == <<WebBrowsing, VideoStreaming, FileDownload>>

RECURSIVE Conv(_, _, _, _)
Conv(p, q, k, i) ==
    IF i > Len(p) THEN 0
    ELSE (IF k - i + 1 \in 1..Len(q) THEN p[i] * q[k - i + 1] ELSE 0)
            + Conv(p, q, k, i + 1)
PolyMul(p, q) == [k \in 1..(Len(p) + Len(q) - 1) |-> Conv(p, q, k, 1)]
PolyAdd(p, q) ==
    [k \in 1..(IF Len(p) > Len(q) THEN Len(p) ELSE Len(q)) |->
        (IF k <= Len(p) THEN p[k] ELSE 0) + (IF k <= Len(q) THEN q[k] ELSE 0)]
PolyNeg(p) == [k \in 1..Len(p) |-> 0 - p[k]]
RECURSIVE PolySign(_)
PolySign(p) ==
    IF p = <<>> THEN 0
    ELSE IF Head(p) > 0 THEN 1
    ELSE IF Head(p) < 0 THEN -1
    ELSE PolySign(Tail(p))

ProbMul(a, b) == [n |-> PolyMul(a.n, b.n), d |-> PolyMul(a.d, b.d)]
\* a > b, for quotients with positive denominators.
ProbGreater(a, b) ==
    PolySign(PolyAdd(PolyMul(a.n, b.d), PolyNeg(PolyMul(b.n, a.d)))) = 1
ProbEqual(a, b) ==
    PolySign(PolyAdd(PolyMul(a.n, b.d), PolyNeg(PolyMul(b.n, a.d)))) = 0

NumStates == Len(States)
NumBuckets == 3

\* (count + Epsilon) / (total + n * Epsilon).
Smoothed(count, total, n) == [n |-> <<count, 1>>, d |-> <<total, n>>]

\* NewHMMClassifier: the emission probabilities are (p + Epsilon) /
\* (1 + 3 * Epsilon) for p = 0.7, 0.25, ... (in twentieths below), every
\* transition probability is 1/3, every count is 0.
NewHMMClassifier ==
    LET twentieths == << <<14, 5, 1>>, <<2, 6, 12>>, <<1, 1, 18>> >>
    IN  [EmissionProbs |->
            [i \in 1..NumStates |-> [b \in 1..NumBuckets |->
                [n |-> <<twentieths[i][b], 20>>, d |-> <<20, 60>>]]],
         TransitionProbs |->
            [i \in 1..NumStates |-> [j \in 1..NumStates |->
                [n |-> <<1>>, d |-> <<NumStates>>]]],
         EmissionCounts |->
            [i \in 1..NumStates |-> [b \in 1..NumBuckets |-> 0]],
         TransitionCounts |->
            [i \in 1..NumStates |-> [j \in 1..NumStates |-> 0]]]

\* The index a loop "if x[i] > max { max = x[i]; index = i }" over
\* 1..Len(x) ends with: the first index of the largest value.
FirstMax(x) ==
    CHOOSE i \in 1..Len(x) :
        /\ \A k \in 1..Len(x) : ~ProbGreater(x[k], x[i])
        /\ \A k \in 1..(i - 1) : ProbGreater(x[i], x[k])

\* The indices the last loop of Predict can end with if the states are
\* visited in any order: every index of the largest value.
LastStatesAnyOrder(x) ==
    { i \in 1..Len(x) : \A k \in 1..Len(x) : ~ProbGreater(x[k], x[i]) }

\* The indices the last loop of Predict (lines 133 to 140) can end with:
\* it visits the slice h.States in order.
LastStates(x) == {FirstMax(x)}

\* viterbi[.][t - 1] of Predict (lines 111 to 131), as probabilities.
RECURSIVE Viterbi(_, _, _)
Viterbi(h, observations, t) ==
    IF t = 1
    THEN [i \in 1..NumStates |->
            ProbMul([n |-> <<1>>, d |-> <<NumStates>>],
                    h.EmissionProbs[i][observations[1] + 1])]
    ELSE LET before == Viterbi(h, observations, t - 1)
         IN  [i \in 1..NumStates |->
                LET prob == [j \in 1..NumStates |->
                                ProbMul(before[j], h.TransitionProbs[j][i])]
                IN  ProbMul(prob[FirstMax(prob)],
                            h.EmissionProbs[i][observations[t] + 1])]

\* HMMClassifier.Predict on the tables h: what it can return.  An
\* observation outside the buckets is an index out of range.
HMMPredict(h, observations) ==
    IF Len(observations) = 0 THEN {Err("observations cannot be empty")}
    ELSE IF \E t \in 1..Len(observations) :
                observations[t] \notin 0..(NumBuckets - 1)
    THEN {Panic}
    ELSE { [kind |-> "ok", type |-> States[i]] :
            i \in LastStates(Viterbi(h, observations, Len(observations))) }

RECURSIVE SumOf(_)
SumOf(x) == IF x = <<>> THEN 0 ELSE Head(x) + SumOf(Tail(x))

\* HMMClassifier.reNormalizeProbabilities.
ReNormalizeProbabilities(h) ==
    LET total(counts) == IF SumOf(counts) = 0 THEN 1 ELSE SumOf(counts)
    IN  [h EXCEPT
           !.EmissionProbs = [i \in 1..NumStates |-> [b \in 1..NumBuckets |->
                Smoothed(h.EmissionCounts[i][b], total(h.EmissionCounts[i]),
                         NumBuckets)]],
           !.TransitionProbs = [i \in 1..NumStates |-> [j \in 1..NumStates |->
                Smoothed(h.TransitionCounts[i][j],
                         total(h.TransitionCounts[i]), NumStates)]]]

\* A count that takes a bucket once however often it was observed.
OccurrencesOnce(observations, b) ==
    IF \E t \in 1..Len(observations) : observations[t] = b THEN 1 ELSE 0

\* How many of the observations are b.
Occurrences(observations, b) ==
    Cardinality({t \in 1..Len(observations) : observations[t] = b})

\* HMMClassifier.Train with non-negative observations: the tables after the
\* call and what it returned.  A ground truth that is not one of States has
\* no entry in the count maps: every observation is skipped (the length of
\* the missing slice is 0) and the transition count is an assignment into a
\* nil map.
HMMTrain(h, observations, groundTruth) ==
    IF Len(observations) = 0
    THEN [h |-> h, ret |-> Err("observations cannot be empty")]
    ELSE IF \A i \in 1..NumStates : States[i] # groundTruth
    THEN IF Len(observations) > 1 THEN [h |-> h, ret |-> Panic]
         ELSE [h |-> ReNormalizeProbabilities(h), ret |-> [kind |-> "done"]]
    ELSE LET g == CHOOSE i \in 1..NumStates : States[i] = groundTruth
             counted ==
                [h EXCEPT
                   !.EmissionCounts[g] = [b \in 1..NumBuckets |->
                        @[b] + Occurrences(observations, b - 1)],
                   !.TransitionCounts[g][g] = @ + Len(observations) - 1]
         IN  [h |-> ReNormalizeProbabilities(counted),
              ret |-> [kind |-> "done"]]

\* No call of GetNextPayloadLength was made (currentLoad has its zero
\* value), the classifier is new.
StatIdle ==
    /\ load = 0
    /\ loadCalls = 0
    /\ lenRet = 0
    /\ hmm = NewHMMClassifier
    /\ hRet = NoCell
    /\ hLog = <<>>
    /\ selLog = <<>>

(***************************************************************************)
(* Specification of the codec: a cell is encoded, the bytes are decoded.   *)
(***************************************************************************)
CodecInit ==
    /\ cCell \in { MkCell(h, p, q, ro) :
                     h \in HeaderSamples,
                     p \in SeqsUpTo(PayloadBytes, MaxPayload),
                     q \in SeqsUpTo(PaddingBytes, MaxPadding),
                     ro \in 0..(MaxPayload + MaxPadding) }
    /\ cEnc = NoCell
    /\ cDec = NoCell
    /\ ReasmNew
    /\ HarnessIdle
    /\ SchedNew
    /\ FrameNew
    /\ MgrNew
    /\ LockIdle
    /\ StatIdle

Encode ==
    /\ cEnc = NoCell
    /\ cEnc' = EncodeCell(cCell)
    /\ UNCHANGED <<statVars, sLog, cCell, cDec, reasmVars, harnessVars, schedVars,
                   frameVars, mgrVars, lockVars>>

Decode ==
    /\ cEnc.kind = "ok"
    /\ cDec = NoCell
    /\ cDec' = DecodeCell(cEnc.bytes)
    /\ UNCHANGED <<statVars, sLog, cCell, cEnc, reasmVars, harnessVars, schedVars,
                   frameVars, mgrVars, lockVars>>

CodecNext == Encode \/ Decode

SpecCodec == CodecInit /\ [][CodecNext]_vars

(***************************************************************************)
(* Specification of the encoder: EncodeCell is handed a cell whose         *)
(* PayloadLen and PaddingLen fields need not be the lengths of its payload *)
(* and padding.                                                            *)
(***************************************************************************)
EncodeInit ==
    /\ cCell \in { [MkCell(PeerSingle, p, q, ro) EXCEPT
                        !.PayloadLen = pl, !.PaddingLen = padl] :
                     p \in SeqsUpTo({7}, MaxPayload),
                     q \in SeqsUpTo({65}, MaxPadding),
                     ro \in 0..(MaxPayload + MaxPadding),
                     pl \in 0..MaxPayload, padl \in 0..MaxPadding }
    /\ cEnc = NoCell
    /\ cDec = NoCell
    /\ ReasmNew
    /\ HarnessIdle
    /\ SchedNew
    /\ FrameNew
    /\ MgrNew
    /\ LockIdle
    /\ StatIdle

EncodeNext == Encode

SpecEncode == EncodeInit /\ [][EncodeNext]_vars

(***************************************************************************)
(* Specification of the decoder: DecodeCell is handed a byte string from   *)
(* the network.  The strings have 16 to 23 bytes; the PayloadLen and       *)
(* PaddingLen fields take small values and the largest one, the bytes      *)
(* after them (the RandOffset field and what follows) are any of 0, 1, 2.  *)
(***************************************************************************)
MaxContent == 3

DecodeLens == {0, 1, 2, 3, U16 - 1}
DecodeInputs ==
    { SubSeq(Header(PeerSingle), 1, 16) \o U16Bytes(pl) \o U16Bytes(padl) \o c :
        pl \in DecodeLens, padl \in DecodeLens,
        c \in SeqsUpTo({0, 1, 2}, MaxContent) }
        \cup {SubSeq(Header(PeerSingle), 1, 16)}

DecodeInit ==
    /\ cCell = NoCell
    /\ cEnc \in { [kind |-> "ok", bytes |-> d] : d \in DecodeInputs }
    /\ cDec = NoCell
    /\ ReasmNew
    /\ HarnessIdle
    /\ SchedNew
    /\ FrameNew
    /\ MgrNew
    /\ LockIdle
    /\ StatIdle

DecodeNext == Decode

SpecDecode == DecodeInit /\ [][DecodeNext]_vars

(***************************************************************************)
(* Specification of the reassembler: the cells of two messages reach       *)
(* ProcessCell, each message's cells in order, with up to MaxStray further *)
(* deliveries of any cell (a repeat or one ahead of its turn).             *)
(***************************************************************************)
ReasmInit ==
    /\ CodecIdle
    /\ ReasmNew
    /\ rMsgs \in { <<a, b>> : a \in FirstMessages, b \in SecondMessages }
    /\ rNext = <<1, 1>>
    /\ rLast = <<0, 0>>
    /\ rStray = 0
    /\ rRej = <<0, 0>>
    /\ rClean = <<TRUE, TRUE>>
    /\ rLog = <<>>
    /\ SchedNew
    /\ FrameNew
    /\ MgrNew
    /\ LockIdle
    /\ StatIdle

Deliver(m, i) ==
    LET cell == rMsgs[m][i]
        out  == ProcessCell(streams, cell)
        inOrder == i = rNext[m]
    IN  /\ inOrder \/ rStray < MaxStray
        /\ streams' = out.streams
        /\ rRes' = out.res
        /\ rLast' = <<m, i>>
        /\ rNext' = IF inOrder THEN [rNext EXCEPT ![m] = i + 1] ELSE rNext
        /\ rStray' = IF inOrder THEN rStray ELSE rStray + 1
        /\ rRej' = IF out.res.kind = "err"
                   THEN [rRej EXCEPT ![m] = @ + 1] ELSE rRej
        /\ rClean' = IF ~inOrder /\ StreamKey(cell) \notin DOMAIN streams
                     THEN [rClean EXCEPT ![m] = FALSE] ELSE rClean
        /\ UNCHANGED <<statVars, sLog, codecVars, rMsgs, rLog, schedVars,
                       frameVars, mgrVars, lockVars>>

ReasmNext == \E m \in 1..2 : \E i \in 1..Len(rMsgs[m]) : Deliver(m, i)

SpecReasm == ReasmInit /\ [][ReasmNext]_vars

(***************************************************************************)
(* Specification of the scheduler: cells are scheduled, the clock          *)
(* advances, GetNextCell is polled.                                        *)
(***************************************************************************)
\* The cells handed to ScheduleCell are pointers: two calls never hand over
\* the same cell.  The specification tells them apart by Seq, which the
\* scheduler does not read: the n-th cell scheduled has Seq n - 1.
MaxScheduled == 3

Scheduled(log) == SelectSeq(log, LAMBDA e : e.op = "ScheduleCell")
Returned(log) == SelectSeq(log, LAMBDA e : e.op = "GetNextCell")

SchedCells ==
    { MkCell([CellID |-> 513, Type |-> TypeData, Flags |-> FlagEOS,
              Seq |-> <<0, 0>>, Timestamp |-> NoTimestamp], <<65>>, <<>>, 0),
      MkCell([CellID |-> 0, Type |-> TypeDummy, Flags |-> 0,
              Seq |-> <<0, 0>>, Timestamp |-> NoTimestamp], <<>>, <<0>>, 0) }

SchedInit ==
    /\ CodecIdle /\ ReasmNew /\ HarnessIdle /\ SchedNew /\ FrameNew /\ MgrNew
    /\ LockIdle
    /\ StatIdle

SchedSchedule ==
    /\ Len(sched.queue) < MaxQueue
    /\ Len(Scheduled(sLog)) < MaxScheduled
    /\ \E c \in SchedCells : \E jitter \in JitterSamples(sched) :
        LET cell == [c EXCEPT !.Seq = <<0, Len(Scheduled(sLog))>>]
        IN
        /\ sched' = ScheduleCell(sched, cell, jitter, now)
        /\ qlog' = Append(qlog, [sendTime |-> now + jitter, at |-> now])
        /\ sLog' = Append(sLog, [op |-> "ScheduleCell", cell |-> cell,
                                 sendTime |-> now + jitter, at |-> now])
        /\ sRet' = NoCell
        /\ UNCHANGED <<statVars, codecVars, reasmVars, harnessVars, frameVars,
                       mgrVars, lockVars, now, ticks>>

SchedGetNext ==
    LET out == GetNextCell(sched, now)
    IN  /\ sched' = out.sched
        /\ IF out.cell = Nil
           THEN sRet' = Nil /\ qlog' = qlog /\ sLog' = sLog
           ELSE /\ sRet' = [kind |-> "cell", cell |-> out.cell.cell,
                            sendTime |-> Head(qlog).sendTime,
                            at |-> Head(qlog).at]
                /\ qlog' = Tail(qlog)
                /\ sLog' = Append(sLog, [op |-> "GetNextCell",
                                         cell |-> out.cell.cell,
                                         sendTime |-> Head(qlog).sendTime,
                                         at |-> now])
        /\ UNCHANGED <<statVars, codecVars, reasmVars, harnessVars, frameVars,
                       mgrVars, lockVars, now, ticks>>

Tick ==
    \E d \in {sched.profile.LatencyJitter, mgr.profile.ProbingInterval} :
        /\ ticks < MaxTicks
        /\ ticks' = ticks + 1
        /\ now' = now + d
        /\ sRet' = NoCell
        /\ UNCHANGED <<statVars, sLog, codecVars, reasmVars, harnessVars,
                       frameVars, mgrVars, lockVars, sched, qlog>>

SchedNext == SchedSchedule \/ SchedGetNext \/ Tick

SpecSched == SchedInit /\ [][SchedNext]_vars

\* The same with time that goes on and a caller that keeps polling: while
\* the scheduler waits for lastSendTime the clock reaches it, and a call of
\* GetNextCell that would return a cell is made.
Wait ==
    /\ now < sched.lastSendTime
    /\ now' = sched.lastSendTime
    /\ sRet' = NoCell
    /\ UNCHANGED <<statVars, sLog, codecVars, reasmVars, harnessVars,
                   frameVars, mgrVars, lockVars, sched, qlog, ticks>>

SchedLiveNext == SchedSchedule \/ SchedGetNext \/ Tick \/ Wait

SpecSchedLive ==
    SchedInit /\ [][SchedLiveNext]_vars /\ WF_vars(Wait) /\ WF_vars(SchedGetNext)

(***************************************************************************)
(* Specification of the framing pipeline: one message is fragmented, and   *)
(* each cell in turn is encoded, the bytes decoded, and the decoded cell   *)
(* handed to the reassembler.                                              *)
(***************************************************************************)
FrameInit ==
    /\ CodecIdle /\ ReasmNew /\ HarnessIdle /\ SchedNew /\ MgrNew
    /\ framer \in { NewFramer(GetProfile(t)) :
                      t \in {WebBrowsing, VideoStreaming, FileDownload, Dynamic} }
    /\ fData = <<>>
    /\ fCells = <<>>
    /\ fIdx = 0
    /\ fOut = NoCell
    /\ fDraw = <<>>
    /\ LockIdle
    /\ StatIdle

FragmentData ==
    /\ fCells = <<>>
    /\ \E data \in AppMessages \ {<<>>} : \E cells \in Fragment(framer, data, now) :
        /\ fData' = data
        /\ fCells' = cells
        /\ framer' = AfterFragment(framer, cells)
        /\ UNCHANGED <<statVars, sLog, codecVars, reasmVars, harnessVars, schedVars, mgrVars,
                       lockVars, fIdx, fOut, fDraw>>

PipeCell ==
    /\ fIdx < Len(fCells)
    /\ fOut # Panic
    /\ fIdx' = fIdx + 1
    /\ LET enc == EncodeCell(fCells[fIdx + 1])
           dec == DecodeCell(enc.bytes)
           out == ProcessCell(streams, dec.cell)
       IN  IF enc.kind # "ok" THEN fOut' = enc /\ streams' = streams
           ELSE IF dec.kind # "ok" THEN fOut' = dec /\ streams' = streams
           ELSE fOut' = out.res /\ streams' = out.streams
    /\ UNCHANGED <<statVars, sLog, codecVars, rRes, harnessVars, schedVars, mgrVars, lockVars,
                   framer, fData, fCells, fDraw>>

FrameNext == FragmentData \/ PipeCell

SpecFrame == FrameInit /\ [][FrameNext]_vars

\* A SetProfile that installs a new Framer for the profile: the seq counter
\* starts again.
FramerSetProfileAnew(f, p) == NewFramer(p)

\* Framer.SetProfile and Scheduler.SetProfile.
FramerSetProfile(f, p) == [f EXCEPT !.profile = p]
SchedulerSetProfile(s, p) == [s EXCEPT !.profile = p]

\* HMMClassifier.Predict on the tables NewHMMClassifier builds (the Manager
\* never trains its classifier).  Every transition has probability 1/3, so
\* the Viterbi score of state i at the last observation is the best score
\* of the step before plus log(1/3) plus the log of i's emission
\* probability for the last observation: the state returned is the first
\* one, in the order of States, whose emission probability for the last
\* observation is the largest.  EmissionProbs is in percent.
EmissionProbs == << <<70, 25, 5>>, <<10, 30, 60>>, <<5, 5, 90>> >>
Predict(observations) ==
    IF Len(observations) = 0 THEN Err("observations cannot be empty")
    ELSE LET obs == observations[Len(observations)]
             best == CHOOSE i \in 1..Len(States) :
                        /\ \A j \in 1..Len(States) :
                              EmissionProbs[j][obs + 1] <= EmissionProbs[i][obs + 1]
                        /\ \A j \in 1..(i - 1) :
                              EmissionProbs[j][obs + 1] < EmissionProbs[i][obs + 1]
         IN  [kind |-> "ok", type |-> States[best]]

\* Profile.GetProfileType, which startDynamicProfilingLoop calls: the traffic
\* type the profile was built for.
GetProfileType(p) == p.Type

(***************************************************************************)
(* Specification of the load: GetNextPayloadLength is called again and     *)
(* again on one profile, the distribution returning samples below, inside  *)
(* and above the range of payload lengths.                                 *)
(***************************************************************************)
MaxLoadCalls == 5

\* The profiles of GetProfile, and the dynamic one with the two extreme
\* smoothing factors a caller can set (EWMAAlpha is an exported field).
LoadProfiles ==
    { GetProfile(t) : t \in {WebBrowsing, VideoStreaming, FileDownload, Dynamic} }
        \cup { [GetProfile(Dynamic) EXCEPT !.EWMAAlpha = a] : a \in {0, AlphaScale} }

LoadInit ==
    /\ CodecIdle /\ ReasmNew /\ HarnessIdle /\ SchedNew /\ MgrNew /\ LockIdle
    /\ StatIdle
    /\ framer \in { NewFramer(p) : p \in LoadProfiles }
    /\ fData = <<>>
    /\ fCells = <<>>
    /\ fIdx = 0
    /\ fOut = NoCell
    /\ fDraw = <<>>

\* Profile.GetNextPayloadLength on the framer's profile.
GetNextPayloadLength ==
    /\ loadCalls < MaxLoadCalls
    /\ \E sample \in DistributionSamples :
          LET length == LengthOf(framer.profile, sample)
          IN  /\ load' \in UpdateLoad(framer.profile, load, length)
              /\ lenRet' = length
    /\ loadCalls' = loadCalls + 1
    /\ UNCHANGED <<hmm, hRet, hLog, selLog, sLog, codecVars, reasmVars,
                   harnessVars, schedVars, frameVars, mgrVars, lockVars>>

LoadNext == GetNextPayloadLength

SpecLoad == LoadInit /\ [][LoadNext]_vars

(***************************************************************************)
(* Specification of the choice of the traffic type: selectTrafficType is   *)
(* called on the profiles of GetProfile with draws from the whole range of *)
(* rand.Float64; the loop over the map of weights visits its keys in an    *)
(* order the Go runtime chooses anew for every loop.                       *)
(***************************************************************************)
MaxSelect == 2

\* rand.Float64(), in hundredths.
FloatSamples == {0, 5, 15, 69, 70, 71, 85, 95, 99}

SelectInit ==
    /\ CodecIdle /\ ReasmNew /\ HarnessIdle /\ SchedNew /\ FrameNew /\ MgrNew
    /\ LockIdle
    /\ StatIdle

SelectTrafficTypeCall ==
    /\ Len(selLog) < MaxSelect
    /\ \E t \in {WebBrowsing, VideoStreaming, FileDownload, Dynamic} :
       \E r \in FloatSamples :
       \E order \in KeyOrders(GetProfile(t)) :
          selLog' = Append(selLog,
                      [weights |-> TrafficWeights(GetProfile(t)), r |-> r,
                       ret |-> SelectTrafficType(GetProfile(t), r, order)])
    /\ UNCHANGED <<load, loadCalls, lenRet, hmm, hRet, hLog, sLog, codecVars,
                   reasmVars, harnessVars, schedVars, frameVars, mgrVars,
                   lockVars>>

SelectNext == SelectTrafficTypeCall

SpecSelect == SelectInit /\ [][SelectNext]_vars

(***************************************************************************)
(* Specification of the classifier: Train and Predict are called on one    *)
(* HMMClassifier, in any order, with observation sequences of up to two    *)
(* buckets (one of them outside the buckets) and every traffic type as the *)
(* ground truth.  A panic ends the process.                                *)
(***************************************************************************)
MaxTrain == 2
MaxPredict == 2

ObservationSeqs == {<<>>, <<0>>, <<2>>, <<3>>, <<0, 2>>, <<2, 2>>}
GroundTruths == {WebBrowsing, VideoStreaming, FileDownload, Dynamic}

CallsOf(op) == Cardinality({k \in 1..Len(hLog) : hLog[k].op = op})

ClassInit ==
    /\ CodecIdle /\ ReasmNew /\ HarnessIdle /\ SchedNew /\ FrameNew /\ MgrNew
    /\ LockIdle
    /\ StatIdle

ClassifierPredict ==
    /\ hRet # Panic
    /\ CallsOf("Predict") < MaxPredict
    /\ \E observations \in ObservationSeqs :
          \E r \in HMMPredict(hmm, observations) :
             /\ hRet' = r
             /\ hLog' = Append(hLog, [op |-> "Predict", tables |-> hmm,
                                      observations |-> observations,
                                      groundTruth |-> Nil, ret |-> r])
    /\ hmm' = hmm
    /\ UNCHANGED <<load, loadCalls, lenRet, selLog, sLog, codecVars, reasmVars, harnessVars,
                   schedVars, frameVars, mgrVars, lockVars>>

ClassifierTrain ==
    /\ hRet # Panic
    /\ CallsOf("Train") < MaxTrain
    /\ \E observations \in ObservationSeqs, groundTruth \in GroundTruths :
          LET out == HMMTrain(hmm, observations, groundTruth)
          IN  /\ hmm' = out.h
              /\ hRet' = out.ret
              /\ hLog' = Append(hLog, [op |-> "Train", tables |-> hmm,
                                       observations |-> observations,
                                       groundTruth |-> groundTruth,
                                       ret |-> out.ret])
    /\ UNCHANGED <<load, loadCalls, lenRet, selLog, sLog, codecVars, reasmVars, harnessVars,
                   schedVars, frameVars, mgrVars, lockVars>>

ClassNext ==
    \/ ClassifierPredict
    \/ ClassifierTrain

SpecClass == ClassInit /\ [][ClassNext]_vars

(***************************************************************************)
(* Specification of the padding: Fragment's loop runs one iteration per    *)
(* step on data of 1 byte and of one byte more than the smallest cell has  *)
(* room for, with payload lengths and cell sizes from both ends of their   *)
(* ranges.  RandOffset and the padding bytes do not enter the padding      *)
(* length; they take one value each.                                       *)
(***************************************************************************)
MaxPadCells == 2

PadData ==
    { [i \in 1..n |-> 65] : n \in {1, MinCellSize - CellHeaderLen + 1} }

\* GetNextPayloadLength returns a length in 1..MaxCellSize-CellHeaderLen,
\* GetNextCellSize a size in MinCellSize..MaxCellSize-1.
PadDraws(p) ==
    { [plen |-> a, size |-> b, ro |-> 0,
       pad |-> CHOOSE d \in PaddingDraws(InferredType(p)) : TRUE] :
        a \in {1, p.MinCellSize - CellHeaderLen,
               p.MinCellSize - CellHeaderLen + 1, p.MaxCellSize - CellHeaderLen},
        b \in {p.MinCellSize, p.MinCellSize + 1, p.MaxCellSize - 1} }

PayloadOffset(cells) == Len(Flatten([i \in 1..Len(cells) |-> cells[i].Payload]))

PadInit ==
    /\ CodecIdle /\ ReasmNew /\ HarnessIdle /\ SchedNew /\ MgrNew /\ LockIdle
    /\ StatIdle
    /\ framer \in { NewFramer(GetProfile(t)) :
                      t \in {WebBrowsing, VideoStreaming, FileDownload, Dynamic} }
    /\ fData \in PadData
    /\ fCells = <<>>
    /\ fIdx = 0
    /\ fOut = NoCell
    /\ fDraw = <<>>

FragmentStep ==
    /\ Len(fCells) < MaxPadCells
    /\ PayloadOffset(fCells) < Len(fData)
    /\ \E draw \in PadDraws(framer.profile) :
       \E id \in IF fCells = <<>> THEN CellIDSamples ELSE {fCells[1].CellID} :
        /\ fCells' = Append(fCells,
                        FragmentCell(framer.profile, fData, PayloadOffset(fCells),
                                     framer.seq, id, now, draw))
        /\ fDraw' = Append(fDraw, draw)
        /\ framer' = [framer EXCEPT !.seq = U32Inc(@)]
    /\ UNCHANGED <<statVars, sLog, codecVars, reasmVars, harnessVars, schedVars, mgrVars,
                   lockVars, fData, fIdx, fOut>>

PadNext == FragmentStep

SpecPad == PadInit /\ [][PadNext]_vars

(***************************************************************************)
(* Specification of the cell sizes: Fragment as under SpecPad, on data     *)
(* long enough for the longest payload GetNextPayloadLength returns, and   *)
(* CreateDummyCell with cell sizes from both ends of their range.  The     *)
(* dummy cell is kept in fOut.                                             *)
(***************************************************************************)
SizeData ==
    { [i \in 1..n |-> 65] :
        n \in {1, MinCellSize - CellHeaderLen + 1,
               MaxCellSize - CellHeaderLen + 1} }

SizeInit ==
    /\ CodecIdle /\ ReasmNew /\ HarnessIdle /\ SchedNew /\ MgrNew /\ LockIdle
    /\ StatIdle
    /\ framer \in { NewFramer(GetProfile(t)) :
                      t \in {WebBrowsing, VideoStreaming, FileDownload, Dynamic} }
    /\ fData \in SizeData
    /\ fCells = <<>>
    /\ fIdx = 0
    /\ fOut = NoCell
    /\ fDraw = <<>>

DummyStep ==
    /\ fOut = NoCell
    /\ \E size \in {framer.profile.MinCellSize, framer.profile.MinCellSize + 1,
                     framer.profile.MaxCellSize - 1} :
       \E cell \in DummyCellsOfSize(framer, now, size) :
        /\ cell.RandOffset = 0
        /\ fOut' = cell
    /\ UNCHANGED <<statVars, sLog, codecVars, reasmVars, harnessVars, schedVars,
                   mgrVars, lockVars, framer, fData, fCells, fIdx, fDraw>>

SizeNext == FragmentStep \/ DummyStep

SpecSize == SizeInit /\ [][SizeNext]_vars

(***************************************************************************)
(* Specification of the Manager: the application queues data, polls for    *)
(* outbound traffic, feeds inbound bytes and reads; the cover-traffic loop *)
(* runs; the clock advances.  Inbound bytes are byte strings the Manager   *)
(* itself emitted (a loopback, as in the usage example).  SetProfile, the  *)
(* adaptive-profiling loop and the lock have their own specifications      *)
(* (SpecSwitch, SpecLock).                                                 *)
(***************************************************************************)
Init ==
    /\ CodecIdle /\ ReasmNew /\ HarnessIdle /\ SchedNew /\ FrameNew /\ MgrNew
    /\ LockIdle
    /\ StatIdle

\* Manager.QueueApplicationData(data), for any data of AppMessages.
QueueApplicationDataCall ==
    /\ ~crashed
    /\ \E data \in AppMessages : \E cells \in Fragment(framer, data, now) :
      \E js \in [1..Len(cells) -> JitterSamples(sched)] :
        /\ framer' = AfterFragment(framer, cells)
        /\ mgr' = [mgr EXCEPT !.observationQueue = @ \o Observations(cells)]
        /\ sched' = ScheduleAll(sched, cells, js, now)
        /\ mQueued' = Append(mQueued, data)
        /\ mRet' = [kind |-> "queued"]
        /\ UNCHANGED <<statVars, sLog, codecVars, reasmVars, harnessVars, now, ticks, qlog, sRet,
                       fData, fCells, fIdx, fOut, fDraw, wire, fedLog, mCover,
                       mRead, crashed, peer, mDone, mViews>>

GetOutboundTraffic ==
    LET out == GetNextCell(sched, now)
        enc == EncodeCell(out.cell.cell)
    IN  /\ ~crashed
        /\ sched' = out.sched
        /\ IF out.cell = Nil
           THEN mRet' = ErrNoOutboundTraffic /\ UNCHANGED <<wire, crashed>>
           ELSE IF enc.kind = "panic"
           THEN mRet' = Panic /\ crashed' = TRUE /\ wire' = wire
           ELSE /\ mRet' = [kind |-> "bytes", bytes |-> enc.bytes]
                /\ wire' = Append(wire, enc.bytes)
                /\ crashed' = crashed
        /\ UNCHANGED <<statVars, sLog, codecVars, reasmVars, harnessVars, now, ticks, qlog, sRet,
                       frameVars, mgr, fedLog, mQueued, mCover, mRead, peer,
                       mDone, mViews>>

InboundSources ==
    { <<"wire", k>> : k \in 1..Len(wire) }
        \cup { <<"peer", k>> : k \in 1..Len(peer) }

InboundBytes(src) == IF src[1] = "wire" THEN wire[src[2]] ELSE peer[src[2]]

\* A test that lets every cell through to the Reassembler.
IsDataCellAlways(cell) == TRUE

\* cell.Type == framing.TypeData
IsDataCell(cell) == cell.Type = TypeData

ProcessInboundTraffic ==
    /\ ~crashed
    /\ Len(fedLog) < MaxInbound
    /\ \E src \in InboundSources :
      LET dec == DecodeCell(InboundBytes(src))
          out == ProcessCell(streams, dec.cell)
          obs == Append(mgr.observationQueue,
                        DiscretizePayloadSize(Len(dec.cell.Payload)))
      IN  /\ fedLog' = Append(fedLog, src)
          /\ IF dec.kind = "panic"
             THEN mRet' = Panic /\ crashed' = TRUE /\ UNCHANGED <<mgr, streams>>
             ELSE IF dec.kind = "err"
             THEN /\ mRet' = Err("failed to decode cell")
                  /\ UNCHANGED <<mgr, streams, crashed>>
             ELSE IF ~IsDataCell(dec.cell)
             THEN mRet' = [kind |-> "done"] /\ UNCHANGED <<mgr, streams, crashed>>
             ELSE /\ streams' = out.streams
                  /\ crashed' = crashed
                  /\ IF out.res.kind = "err"
                     THEN /\ mRet' = Err("failed to reassemble cell")
                          /\ mgr' = [mgr EXCEPT !.observationQueue = obs]
                     ELSE /\ mRet' = [kind |-> "done"]
                          /\ mgr' = [mgr EXCEPT
                                !.observationQueue = obs,
                                !.inboundQueue =
                                    IF out.res.kind = "ok"
                                    THEN @ \o out.res.payload ELSE @]
          /\ mDone' = IF dec.kind = "ok" /\ IsDataCell(dec.cell)
                          /\ out.res.kind = "ok"
                       THEN Append(mDone, out.res.payload) ELSE mDone
          /\ mViews' = IF dec.kind = "ok" /\ IsDataCell(dec.cell)
                           /\ out.res.kind = "ok"
                        THEN [k \in 1..Len(mViews) |->
                                WrittenOver(mViews[k], Len(mgr.inboundQueue),
                                            out.res.payload)]
                        ELSE mViews
          /\ UNCHANGED <<statVars, sLog, codecVars, rRes, harnessVars, schedVars, frameVars,
                         wire, mQueued, mCover, mRead, peer>>

ReadApplicationData ==
    /\ ~crashed
    /\ mRet' = [kind |-> "read", data |-> mgr.inboundQueue]
    /\ mRead' = mRead \o mgr.inboundQueue
    /\ mViews' = IF Len(mgr.inboundQueue) = 0 THEN mViews
                  ELSE Append(mViews, mgr.inboundQueue)
    /\ mgr' = [mgr EXCEPT !.inboundQueue = <<>>]
    /\ UNCHANGED <<statVars, sLog, codecVars, reasmVars, harnessVars, schedVars, frameVars,
                   wire, fedLog, mQueued, mCover, crashed, peer, mDone>>

\* The calls of QueueApplicationData the specifications make.
QueueApplicationData == Len(mQueued) < MaxMsgs /\ QueueApplicationDataCall

\* One iteration of startCoverTrafficLoop; its ticker fires every
\* ProbingInterval of the profile the Manager was built with.
CoverTraffic ==
    /\ ~crashed
    /\ mCover < MaxCover
    /\ now >= (mCover + 1) * GetProfile(Dynamic).ProbingInterval
    /\ \E dummy \in CreateDummyCell(framer, now) : \E jitter \in JitterSamples(sched) :
        /\ mCover' = mCover + 1
        /\ sched' = ScheduleCell(sched, dummy, jitter, now)
        /\ UNCHANGED <<statVars, sLog, codecVars, reasmVars, harnessVars, now, ticks, qlog, sRet,
                       frameVars, mgr, wire, fedLog, mQueued, mRead, mRet,
                       crashed, peer, mDone, mViews>>

\* The profiles the application hands to SetProfile.
ProfileArgs == { GetProfile(t) : t \in {WebBrowsing, FileDownload} }

\* Manager.SetProfile(p).
SetProfile ==
    /\ ~crashed
    /\ \E p \in ProfileArgs :
        /\ mgr' = [mgr EXCEPT !.profile = p, !.lastProfileSwitch = now]
        /\ framer' = FramerSetProfile(framer, p)
        /\ sched' = SchedulerSetProfile(sched, p)
        /\ mRet' = [kind |-> "set"]
        /\ UNCHANGED <<statVars, sLog, codecVars, reasmVars, harnessVars, now, ticks, qlog, sRet,
                       fData, fCells, fIdx, fOut, fDraw, wire, fedLog, mQueued,
                       mCover, mRead, crashed, peer, mDone, mViews>>

Next ==
    \/ QueueApplicationData /\ UNCHANGED lockVars
    \/ GetOutboundTraffic /\ UNCHANGED lockVars
    \/ ProcessInboundTraffic /\ UNCHANGED lockVars
    \/ ReadApplicationData /\ UNCHANGED lockVars
    \/ CoverTraffic /\ UNCHANGED lockVars
    \/ Tick

Spec == Init /\ [][Next]_vars

(***************************************************************************)
(* Specification of the outbound order: the application queues up to two   *)
(* messages and polls for outbound traffic, the cover-traffic loop runs,   *)
(* the clock advances.  The padding and RandOffset of a cell do not enter  *)
(* the order: every cell has the smallest size, RandOffset 0 and padding   *)
(* of one shape, and is scheduled without jitter.                          *)
(***************************************************************************)
MaxOrderMsgs == 2

PlainCell(c) ==
    /\ c.RandOffset = 0
    /\ c.PaddingLen = PaddingLenOf(MinCellSize, c.PayloadLen)
    /\ c.Padding = GeneratePadding(c.PaddingLen, WebBrowsing,
                                   [shape |-> 1, fill |-> 200])

\* Every cell the step queued is plain and was scheduled without jitter.
PlainStep ==
    /\ \A j \in (Len(sched.queue) + 1)..Len(sched'.queue) :
          PlainCell(sched'.queue[j])
    /\ sched'.lastSendTime = now

OrderNext ==
    \/ /\ Len(mQueued) < MaxOrderMsgs
       /\ QueueApplicationDataCall /\ PlainStep /\ UNCHANGED lockVars
    \/ GetOutboundTraffic /\ UNCHANGED lockVars
    \/ CoverTraffic /\ PlainStep /\ UNCHANGED lockVars
    \/ Tick

SpecOrder == Init /\ [][OrderNext]_vars

(***************************************************************************)
(* Specification of the streams: the application's messages go through     *)
(* Fragment and the cells reach ProcessCell as Fragment returned them, in  *)
(* order; up to MaxStray times a cell that was processed is delivered once *)
(* more.  fCells holds the cells of every call of Fragment so far and fIdx *)
(* counts those processed.  Every cell has the smallest size, RandOffset 0 *)
(* and padding of one shape: the Reassembler reads none of them.           *)
(***************************************************************************)
MaxStreamCells == 3

StreamInit ==
    /\ CodecIdle /\ ReasmNew /\ HarnessIdle /\ SchedNew /\ MgrNew
    /\ framer \in { NewFramer(GetProfile(t)) : t \in {WebBrowsing, Dynamic} }
    /\ fData = <<>>
    /\ fCells = <<>>
    /\ fIdx = 0
    /\ fOut = NoCell
    /\ fDraw = <<>>
    /\ LockIdle
    /\ StatIdle

StreamFragment ==
    /\ Len(fCells) < MaxStreamCells
    /\ \E data \in AppMessages \ {<<>>} : \E cells \in Fragment(framer, data, now) :
        /\ \A j \in 1..Len(cells) : PlainCell(cells[j])
        /\ fData' = data
        /\ fCells' = fCells \o cells
        /\ framer' = AfterFragment(framer, cells)
        /\ UNCHANGED <<statVars, sLog, codecVars, reasmVars, harnessVars,
                       schedVars, mgrVars, lockVars, fIdx, fOut, fDraw>>

StreamCall(cell) ==
    LET out == ProcessCell(streams, cell)
    IN  /\ streams' = out.streams
        /\ rRes' = out.res
        /\ rLog' = Append(rLog, [cell |-> cell, res |-> out.res])
        /\ UNCHANGED <<statVars, sLog, codecVars, rMsgs, rNext, rLast, rRej,
                       rClean, schedVars, mgrVars, lockVars, framer, fData,
                       fCells, fOut, fDraw>>

StreamProcess ==
    /\ fIdx < Len(fCells)
    /\ fIdx' = fIdx + 1
    /\ StreamCall(fCells[fIdx + 1])
    /\ UNCHANGED rStray

StreamRepeat ==
    /\ rStray < MaxStray
    /\ rStray' = rStray + 1
    /\ \E i \in 1..fIdx : StreamCall(fCells[i])
    /\ UNCHANGED fIdx

StreamNext == StreamFragment \/ StreamProcess \/ StreamRepeat

SpecStream == StreamInit /\ [][StreamNext]_vars

(***************************************************************************)
(* Specification of the Manager's inbound side: the byte strings of the    *)
(* peer reach ProcessInboundTraffic in any order, any number of times,     *)
(* and the application reads.                                              *)
(***************************************************************************)
InboundInit ==
    /\ CodecIdle /\ ReasmNew /\ HarnessIdle /\ SchedNew /\ FrameNew /\ MgrIdle
    /\ LockIdle
    /\ StatIdle
    /\ peer = PeerPackets

InboundNext ==
    \/ ProcessInboundTraffic /\ UNCHANGED lockVars
    \/ ReadApplicationData /\ UNCHANGED lockVars

SpecInbound == InboundInit /\ [][InboundNext]_vars

(***************************************************************************)
(* Specification of the cells that are not data: the peer sends a          *)
(* Handshake, a Control and a Dummy cell (each with a payload byte, the    *)
(* first with the end-of-stream flag) next to the first cell of its        *)
(* two-cell message and its one-cell message; the application reads, the   *)
(* cover-traffic loop fills the scheduler's queue, the clock advances.     *)
(***************************************************************************)
PeerHandshake == PeerCell(4660, TypeHandshake, FlagEOS, <<0, 1>>, <<1>>)
PeerControl == PeerCell(7, TypeControl, 0, <<0, 0>>, <<2>>)
PeerCover == PeerCell(0, TypeDummy, 0, <<0, 0>>, <<3>>)

NonDataSources == { <<"peer", k>> : k \in 3..5 }

NonDataInit ==
    /\ CodecIdle /\ ReasmNew /\ HarnessIdle /\ SchedNew /\ FrameNew /\ MgrIdle
    /\ LockIdle
    /\ StatIdle
    /\ peer = << WireImage(PeerMessage[1]), WireImage(PeerSingle),
                 WireImage(PeerHandshake), WireImage(PeerControl),
                 WireImage(PeerCover) >>

NonDataNext ==
    \/ ProcessInboundTraffic /\ UNCHANGED lockVars
    \/ ReadApplicationData /\ UNCHANGED lockVars
    \/ CoverTraffic /\ PlainStep /\ UNCHANGED lockVars
    \/ Tick

SpecNonData == NonDataInit /\ [][NonDataNext]_vars

(***************************************************************************)
(* Specification of profile switching: the application queues data, feeds  *)
(* the first cell of the peer's two-cell message and the peer's one-cell   *)
(* message, and calls SetProfile, in any order.                            *)
(***************************************************************************)
SwitchInit ==
    /\ CodecIdle /\ ReasmNew /\ HarnessIdle /\ SchedNew /\ FrameNew /\ MgrIdle
    /\ LockIdle
    /\ StatIdle
    /\ peer = <<WireImage(PeerMessage[1]), WireImage(PeerSingle)>>

SwitchNext ==
    \/ QueueApplicationData /\ UNCHANGED lockVars
    \/ ProcessInboundTraffic /\ UNCHANGED lockVars
    \/ SetProfile /\ UNCHANGED lockVars

SpecSwitch == SwitchInit /\ [][SwitchNext]_vars

(***************************************************************************)
(* Specification of the Manager's lock.  Three processes use the Manager:  *)
(* the application, calling the public operations one after the other,     *)
(* and the two loops NewManager starts.  A process calling an operation    *)
(* stands at its m.mu.Lock() (at = "lock"), then between Lock and Unlock   *)
(* (at = "body"); the deferred Unlock is part of the operation's last      *)
(* step.  The specification starts one ProbingInterval after NewManager,   *)
(* when nine data cells with payloads under 200 bytes have been observed   *)
(* and the application has read what they completed; the histories start   *)
(* there, and the clock stands still from there on.                        *)
(***************************************************************************)
MaxLockData == 0
MaxLockInbound == 1
ProfilingPeriod == 5000
MinObservations == 10

PublicOps ==
    {"QueueApplicationData", "GetOutboundTraffic", "ProcessInboundTraffic",
     "ReadApplicationData", "SetProfile"}

CoverLoop == [op |-> "startCoverTrafficLoop", at |-> "ticker", arg |-> Nil]
ProfilingLoop ==
    [op |-> "startDynamicProfilingLoop", at |-> "ticker", arg |-> Nil]

LockInit ==
    /\ CodecIdle /\ ReasmNew /\ HarnessIdle /\ FrameNew
    /\ now = GetProfile(Dynamic).ProbingInterval
    /\ ticks = 0
    /\ sched = NewScheduler(0)
    /\ qlog = <<>>
    /\ sRet = NoCell
    /\ sLog = <<>>
    /\ mgr = [NewManager(0) EXCEPT
                !.observationQueue = [i \in 1..(MinObservations - 1) |-> 0]]
    /\ wire = <<>>
    /\ fedLog = <<>>
    /\ mQueued = <<>>
    /\ mCover = 0
    /\ mRead = <<>>
    /\ mRet = NoCell
    /\ crashed = FALSE
    /\ mDone = <<>>
    /\ mViews = <<>>
    /\ peer = <<WireImage(PeerSingle)>>
    /\ lock = "none"
    /\ pc = [p \in MgrProcs |->
                IF p = "app" THEN Idle
                ELSE IF p = "cover" THEN [CoverLoop EXCEPT !.at = "start"]
                ELSE ProfilingLoop]
    /\ races = {}
    /\ StatIdle

\* The application calls a public operation: it reaches the operation's
\* m.mu.Lock().
Call ==
    /\ ~crashed
    /\ pc["app"] = Idle
    /\ \E op \in PublicOps :
      \E arg \in IF op = "SetProfile" THEN ProfileArgs ELSE {Nil} :
        /\ op = "QueueApplicationData" => Len(mQueued) < MaxMsgs
        /\ op = "ProcessInboundTraffic" => Len(fedLog) < MaxLockInbound
        /\ pc' = [pc EXCEPT !["app"] = [op |-> op, at |-> "lock", arg |-> arg]]
    /\ UNCHANGED <<statVars, sLog, codecVars, reasmVars, harnessVars, schedVars, frameVars,
                   mgrVars, lock, races>>

\* m.mu.Lock() returns: sync.Mutex gives the lock to a process standing at
\* Lock only when no process holds it, the caller included.
MuLock ==
    /\ ~crashed
    /\ lock = "none"
    /\ \E p \in MgrProcs :
        /\ pc[p].at = "lock"
        /\ lock' = p
        /\ pc' = [pc EXCEPT ![p].at = "body"]
    /\ UNCHANGED <<statVars, sLog, codecVars, reasmVars, harnessVars, schedVars, frameVars,
                   mgrVars, races>>

In(p, op) == ~crashed /\ pc[p].op = op /\ pc[p].at = "body" /\ lock = p

\* m.mu.Unlock() and the return of the operation; p goes on at next.
Return(p, next) ==
    /\ lock' = "none"
    /\ pc' = [pc EXCEPT ![p] = next]
    /\ races' = races

LkQueueApplicationData ==
    /\ In("app", "QueueApplicationData")
    /\ QueueApplicationData
    /\ Len(mQueued'[Len(mQueued')]) <= MaxLockData
    /\ Return("app", Idle)

LkGetOutboundTraffic ==
    In("app", "GetOutboundTraffic") /\ GetOutboundTraffic /\ Return("app", Idle)

LkProcessInboundTraffic ==
    /\ In("app", "ProcessInboundTraffic")
    /\ ProcessInboundTraffic
    /\ Return("app", Idle)

LkReadApplicationData ==
    In("app", "ReadApplicationData") /\ ReadApplicationData /\ Return("app", Idle)

\* The body of SetProfile, for the application and for the call
\* startDynamicProfilingLoop makes at line 245.
LkSetProfile ==
    \E p \in {"app", "profiling"} :
        /\ In(p, "SetProfile")
        /\ SetProfile
        /\ mgr'.profile = pc[p].arg
        /\ Return(p, IF p = "app" THEN Idle
                     ELSE [ProfilingLoop EXCEPT !.at = "clear"])

\* startCoverTrafficLoop creates its ticker: it reads m.profile without
\* the lock (line 207).
CoverStart ==
    /\ ~crashed
    /\ pc["cover"].at = "start"
    /\ pc' = [pc EXCEPT !["cover"] =
                [CoverLoop EXCEPT !.arg = mgr.profile.ProbingInterval]]
    /\ races' = races \cup {[proc |-> "cover", field |-> "profile"]}
    /\ UNCHANGED <<statVars, sLog, codecVars, reasmVars, harnessVars, schedVars, frameVars,
                   mgrVars, lock>>

\* The ticker of startCoverTrafficLoop fires.
CoverTick ==
    /\ ~crashed
    /\ pc["cover"].at = "ticker"
    /\ mCover < MaxCover
    /\ now >= (mCover + 1) * pc["cover"].arg
    /\ pc' = [pc EXCEPT !["cover"].at = "lock"]
    /\ UNCHANGED <<statVars, sLog, codecVars, reasmVars, harnessVars, schedVars, frameVars,
                   mgrVars, lock, races>>

LkCoverTraffic ==
    /\ In("cover", "startCoverTrafficLoop")
    /\ CoverTraffic
    /\ Return("cover", [pc["cover"] EXCEPT !.at = "ticker"])

\* The ticker of startDynamicProfilingLoop fires (it has fired once the
\* first period is over).
ProfilingTick ==
    /\ ~crashed
    /\ pc["profiling"].at = "ticker"
    /\ now >= ProfilingPeriod
    /\ pc' = [pc EXCEPT !["profiling"].at = "lock"]
    /\ UNCHANGED <<statVars, sLog, codecVars, reasmVars, harnessVars, schedVars, frameVars,
                   mgrVars, lock, races>>

\* startDynamicProfilingLoop, lines 231 to 247: with fewer than ten
\* observations, or when Predict fails, it unlocks; when the predicted type
\* is not the profile's it calls m.SetProfile, holding the lock.
LkProfiling ==
    /\ In("profiling", "startDynamicProfilingLoop")
    /\ LET pr == Predict(mgr.observationQueue)
       IN  IF Len(mgr.observationQueue) < MinObservations \/ pr.kind = "err"
           THEN Return("profiling", ProfilingLoop)
           ELSE IF pr.type # GetProfileType(mgr.profile)
           THEN /\ pc' = [pc EXCEPT !["profiling"] =
                            [op |-> "SetProfile", at |-> "lock",
                             arg |-> GetProfile(pr.type)]]
                /\ UNCHANGED <<lock, races>>
           ELSE /\ pc' = [pc EXCEPT !["profiling"].at = "clear"]
                /\ UNCHANGED <<lock, races>>
    /\ UNCHANGED <<statVars, sLog, codecVars, reasmVars, harnessVars, schedVars, frameVars,
                   mgrVars>>

\* startDynamicProfilingLoop, lines 250 and 251.
ProfilingEnd ==
    /\ ~crashed
    /\ pc["profiling"].at = "clear"
    /\ lock = "profiling"
    /\ mgr' = [mgr EXCEPT !.observationQueue = <<>>]
    /\ Return("profiling", ProfilingLoop)
    /\ UNCHANGED <<statVars, sLog, codecVars, reasmVars, harnessVars, schedVars, frameVars,
                   wire, fedLog, mQueued, mCover, mRead, mRet, crashed, peer,
                   mDone, mViews>>

LockNext ==
    \/ Call
    \/ MuLock
    \/ LkQueueApplicationData
    \/ LkGetOutboundTraffic
    \/ LkProcessInboundTraffic
    \/ LkReadApplicationData
    \/ LkSetProfile
    \/ CoverStart
    \/ CoverTick
    \/ LkCoverTraffic
    \/ ProfilingTick
    \/ LkProfiling
    \/ ProfilingEnd

SpecLock == LockInit /\ [][LockNext]_vars

(***************************************************************************)
(* Claims about the codec (checked under SpecCodec).                       *)
(***************************************************************************)
ContentLen(c) == c.PayloadLen + c.PaddingLen

\* C3: for every cell whose payload and padding have the declared lengths
\* and every randOffset in 0..payloadLen+paddingLen-1, decode applied to the
\* bytes encode returned succeeds and yields a cell equal to the original.
C3_RoundTripEveryOffset ==
    (cCell.RandOffset < ContentLen(cCell) /\ cDec # NoCell)
        => (cDec.kind = "ok" /\ cDec.cell = cCell)

(***************************************************************************)
(* Claims about the reassembler (checked under SpecReasm).                 *)
(***************************************************************************)
\* In a step of SpecReasm, the cell handed to ProcessCell.
Delivered == rMsgs[rLast'[1]][rLast'[2]]
IsDelivery == rNext' # rNext \/ rStray' # rStray

\* What C5 asks of one call of ProcessCell.
C5_Step ==
    IsDelivery =>
      LET cell == Delivered
          m    == rLast'[1]
          id   == cell.CellID
      IN  /\ id \in DOMAIN streams =>
               /\ (rRes'.kind # "err") <=> (cell.Seq = U32Inc(streams[id].lastSeq))
               /\ rRes'.kind = "err" => streams' = streams
               /\ rRes'.kind = "incomplete" =>
                    /\ id \in DOMAIN streams'
                    /\ streams'[id].lastSeq = cell.Seq
                    /\ streams'[id].buffer = streams[id].buffer \o cell.Payload
          /\ (rClean'[m] /\ rRes'.kind = "ok") =>
               rRes'.payload = MessageData(rMsgs[m])

C7_Step ==
    IsDelivery =>
      LET cell  == Delivered
          m     == rLast'[1]
          i     == rLast'[2]
          other == rMsgs[3 - m][1].CellID
      IN  /\ rStray' = 0 =>
               /\ rRes'.kind # "err"
               /\ i < Len(rMsgs[m]) => rRes'.kind = "incomplete"
               /\ i = Len(rMsgs[m]) =>
                    /\ rRes'.kind = "ok"
                    /\ rRes'.payload = MessageData(rMsgs[m])
          /\ (other \in DOMAIN streams) <=> (other \in DOMAIN streams')
          /\ other \in DOMAIN streams => streams'[other] = streams[other]

C2_FragmentPipeline ==
    fIdx > 0 =>
        IF fIdx = Len(fCells) THEN fOut = Complete(fData) ELSE fOut = Incomplete

(***************************************************************************)
(* Claims about the Manager (checked under Spec and SpecInbound).          *)
(***************************************************************************)
\* C1: with one message queued, every queued cell drained by
\* GetOutboundTraffic, each byte string it returned fed to
\* ProcessInboundTraffic once in the order it was produced, the read that
\* follows returns exactly the queued bytes (cover cells add nothing).
C1_ManagerRoundTrip ==
    ( /\ ~crashed
      /\ Len(mQueued) = 1
      /\ sched.queue = <<>>
      /\ fedLog = [k \in 1..Len(wire) |-> <<"wire", k>>]
      /\ mRet.kind = "read"
      /\ mRead = mRet.data )
        => mRet.data = mQueued[1]

\* The bytes ReadApplicationData has returned and those it would return now.
DeliveredBytes == mRead \o mgr.inboundQueue

FedTimes(src) == Cardinality({ i \in 1..Len(fedLog) : fedLog[i] = src })

\* C4: once every cell of the peer's message has been handed to
\* ProcessInboundTraffic exactly once, in whatever order and with cover
\* cells in between, the bytes read and still to be read are the message's
\* bytes, complete and in order.
C4_AnyOrderDelivery ==
    ( /\ \A k \in 1..Len(PeerMessage) : FedTimes(<<"peer", k>>) = 1
      /\ \A i \in 1..Len(fedLog) :
            fedLog[i] \in { <<"peer", k>> : k \in 1..(Len(PeerMessage) + 1) } )
        => DeliveredBytes = MessageData(PeerMessage)

\* The peer's packets idx were fed in this order, and every call of
\* ProcessInboundTraffic after that fed one of them again.
FedThenRepeated(idx) ==
    /\ Len(fedLog) >= Len(idx)
    /\ \A k \in 1..Len(idx) : fedLog[k] = <<"peer", idx[k]>>
    /\ \A i \in 1..Len(fedLog) : \E k \in 1..Len(idx) : fedLog[i] = <<"peer", idx[k]>>

\* C6: after the cells of a message have been accepted, feeding any of them
\* again (the first cell or the end-of-stream cell included) adds nothing:
\* the bytes read and still to be read hold the message exactly once.
C6_NoRedelivery ==
    /\ FedThenRepeated(<<1, 2>>) => DeliveredBytes = MessageData(PeerMessage)
    /\ FedThenRepeated(<<4>>) => DeliveredBytes = PeerSingle.Payload

(***************************************************************************)
(* Claims about the scheduler (checked under SpecSched).  sRet holds what  *)
(* GetNextCell has just returned, in the state the call left.              *)
(***************************************************************************)
QueuedSendTimes == { qlog[j].sendTime : j \in 1..Len(qlog) }

\* C8: GetNextCell never returns a cell at a time earlier than the send
\* time ScheduleCell computed for that cell (now + jitter; the claim's send
\* time of a cover cell is later still, by the probing interval).
C8_NeverBeforeSendTime ==
    sRet.kind = "cell" => now >= sRet.sendTime

\* C9: when a Data cell and a Dummy cell enqueued at the same instant are
\* both queued, GetNextCell returns the Data cell first: it never returns
\* the Dummy cell while that Data cell is still queued.
C9_DataBeforeDummy ==
    (sRet.kind = "cell" /\ sRet.cell.Type = TypeDummy) =>
        ~\E j \in 1..Len(sched.queue) :
            /\ sched.queue[j].Type = TypeData
            /\ qlog[j].at = sRet.at

\* C10: GetNextCell returns nothing exactly when the queue is empty or the
\* earliest send time among the queued cells is in the future; otherwise it
\* removes and returns the cell with the earliest send time.
C10_ReturnsEarliestDue ==
    /\ sRet.kind = "nil" =>
          (sched.queue = <<>> \/ \A t \in QueuedSendTimes : t > now)
    /\ sRet.kind = "cell" =>
          /\ sRet.sendTime <= now
          /\ \A t \in QueuedSendTimes : sRet.sendTime <= t


(***************************************************************************)
(* Claims about the Manager's lock (checked under SpecLock).               *)
(***************************************************************************)
\* C11: every public operation and every background-task iteration
\* eventually returns: no process waits forever for the Manager lock.  A
\* process standing at m.mu.Lock() while it holds the lock itself waits
\* forever, and so does every later caller: only the holder unlocks.  The
\* formula says that no process stands at Lock holding the lock.
C11_NobodyWaitsForever ==
    \A p \in MgrProcs : pc[p].at = "lock" => lock # p

\* C12: at most one operation or background-task iteration is inside its
\* critical section at a time, and every access to the Manager's fields is
\* made by the process holding the lock.
C12_AccessUnderLock ==
    /\ \A p \in MgrProcs : pc[p].at \in {"body", "clear"} => lock = p
    /\ races = {}

\* C13: whenever the Manager lock is free, the Manager, its Framer and its
\* Scheduler hold the same Profile.
C13_SameProfile ==
    lock = "none" =>
        /\ framer.profile = mgr.profile
        /\ sched.profile = mgr.profile

(***************************************************************************)
(* Claims about the Framer's cells (checked under SpecFrame).              *)
(***************************************************************************)
CellInvariant(c) ==
    /\ ContentLen(c) # 0 => c.RandOffset < ContentLen(c)
    /\ ContentLen(c) = 0 => c.RandOffset = 0
    /\ c.RandOffset + c.PayloadLen <= ContentLen(c)

\* C14: every cell Fragment returns and every cell CreateDummyCell can
\* return satisfies the cell invariant: RandOffset is below
\* PayloadLen+PaddingLen when that sum is not zero (and is 0 when it is), and
\* RandOffset+PayloadLen does not exceed PayloadLen+PaddingLen.
C14_CellInvariant ==
    /\ \A i \in 1..Len(fCells) : CellInvariant(fCells[i])
    /\ \A c \in CreateDummyCell(framer, now) : CellInvariant(c)

\* C16: for every non-empty input, the last cell Fragment returns has the
\* end-of-stream flag (bit 0 of Flags) set and no earlier cell of the call
\* has it, also when the payload length drawn for the last cell equals the
\* number of bytes that remained.
C16_EosOnLastCellOnly ==
    fCells # <<>> =>
        /\ fCells[Len(fCells)].Flags % 2 = 1
        /\ \A i \in 1..(Len(fCells) - 1) : fCells[i].Flags % 2 = 0

C17_OutboundContract ==
    [][GetOutboundTraffic =>
         IF sched.queue = <<>> \/ now < sched.lastSendTime
         THEN /\ mRet' = ErrNoOutboundTraffic
              /\ UNCHANGED <<sched, framer, streams, mgr, wire>>
         ELSE /\ Len(sched'.queue) = Len(sched.queue) - 1
              /\ mRet'.kind = "bytes"
              /\ \E i \in 1..Len(sched.queue) :
                    /\ sched'.queue = SubSeq(sched.queue, 1, i - 1)
                                        \o SubSeq(sched.queue, i + 1, Len(sched.queue))
                    /\ EncodeCell(sched.queue[i]).kind = "ok"
                    /\ mRet'.bytes = EncodeCell(sched.queue[i]).bytes]_vars

(***************************************************************************)
(* Claims about reading (checked under SpecInbound).                       *)
(***************************************************************************)
\* C18: the byte strings ReadApplicationData has returned, one after the
\* other, followed by what is still buffered, are the messages completed so
\* far, in completion order: no byte is returned twice and none is lost.
C18_ReadsAreCompletedMessages ==
    Flatten(mViews) \o mgr.inboundQueue = Flatten(mDone)

\* The input of the ProcessInboundTraffic call just made.
LastFed == InboundBytes(fedLog[Len(fedLog)])

\* The input is shorter than the header, or the number of bytes after the
\* header is not PayloadLen+PaddingLen.
LengthMismatch(data) ==
    \/ Len(data) < 20
    \/ Len(data) - 20 # U16At(data, 16) + U16At(data, 18)

\* C19: on an input shorter than the 20-byte header, or whose content region
\* does not have PayloadLen+PaddingLen bytes, DecodeCell returns an error and
\* no cell, and ProcessInboundTraffic returns the error and leaves the
\* reassembly streams, the inbound buffer, the observation history and the
\* scheduler queue as they were.
C19_MismatchIsRejected ==
    [][(ProcessInboundTraffic /\ LengthMismatch(LastFed')) =>
          /\ DecodeCell(LastFed').kind = "err"
          /\ mRet'.kind = "err"
          /\ UNCHANGED <<streams, mgr, sched>>]_vars

(***************************************************************************)
(* Claims about profile switching (checked under SpecSwitch).              *)
(***************************************************************************)
\* C20: SetProfile changes only the profile used from then on: the cells in
\* the scheduler queue keep their fields and their order, GetNextCell hands
\* out the same cell as it would have before, and the Framer's seq counter,
\* the reassembly streams and the inbound buffer are unchanged.
C20_SetProfileFrame ==
    [][SetProfile =>
          /\ sched'.queue = sched.queue
          /\ GetNextCell(sched', now).cell = GetNextCell(sched, now).cell
          /\ framer'.seq = framer.seq
          /\ streams' = streams
          /\ mgr'.inboundQueue = mgr.inboundQueue
          /\ framer'.profile = mgr'.profile]_vars

\* SetProfile has just returned with cells queued, the seq counter advanced,
\* a stream open and bytes in the inbound buffer.
C20_Witness ==
    /\ mRet.kind = "set"
    /\ sched.queue # <<>>
    /\ framer.seq # <<0, 0>>
    /\ streams # EmptyMap
    /\ mgr.inboundQueue # <<>>
    /\ mgr.profile # GetProfile(Dynamic)

(***************************************************************************)
(* C21.  Starting from load 0, with a smoothing factor between 0 and 1,    *)
(* the smoothed load stays between 0 and 1 after any number of calls of    *)
(* GetNextPayloadLength.                                                   *)
(***************************************************************************)
C21_LoadInUnitInterval == 0 <= load /\ load <= LoadScale

\* Several calls were made and the load has risen above one half.
C21_Witness == loadCalls >= 3 /\ 2 * load > LoadScale

(***************************************************************************)
(* C22.  Predict is a function of the tables and the observations: two     *)
(* calls that find equal tables and are given equal non-empty observation  *)
(* sequences return the same; Predict leaves the tables as they are; on an *)
(* empty sequence it returns an error.                                     *)
(***************************************************************************)
PredictCalls(log) == {k \in 1..Len(log) : log[k].op = "Predict"}

C22_PredictIsAFunction ==
    [][(Len(hLog') = Len(hLog) + 1 /\ hLog'[Len(hLog')].op = "Predict") =>
          /\ hmm' = hmm
          /\ \A a, b \in PredictCalls(hLog') :
                (hLog'[a].tables = hLog'[b].tables
                    /\ hLog'[a].observations = hLog'[b].observations)
                => hLog'[a].ret = hLog'[b].ret
          /\ hLog'[Len(hLog')].observations = <<>>
                => hRet' = Err("observations cannot be empty")
          /\ (hLog'[Len(hLog')].observations # <<>>
                /\ \A t \in 1..Len(hLog'[Len(hLog')].observations) :
                      hLog'[Len(hLog')].observations[t] \in 0..(NumBuckets - 1))
                => hRet'.kind = "ok"]_vars

\* Two calls of Predict found the same trained tables and were given the
\* same two observations, and returned a class.
C22_Witness ==
    \E a, b \in PredictCalls(hLog) :
        /\ a < b
        /\ hLog[a].tables = hLog[b].tables
        /\ hLog[a].tables # NewHMMClassifier
        /\ hLog[a].observations = hLog[b].observations
        /\ Len(hLog[a].observations) = 2
        /\ hLog[b].ret.kind = "ok"

(***************************************************************************)
(* C23.  Once Train was called with large-bucket observations for some     *)
(* ground-truth class, Predict on a sequence in which the large bucket     *)
(* dominates returns VideoStreaming or FileDownload, never WebBrowsing,    *)
(* whichever classes the earlier calls of Train named.                     *)
(***************************************************************************)
LargeBucket == NumBuckets - 1
AllLarge(observations) ==
    /\ observations # <<>>
    /\ \A t \in 1..Len(observations) : observations[t] = LargeBucket
LargeDominates(observations) ==
    /\ \A t \in 1..Len(observations) : observations[t] \in 0..LargeBucket
    /\ 2 * Occurrences(observations, LargeBucket) > Len(observations)

C23_LargeBucketsGiveLargeClass ==
    \A k \in PredictCalls(hLog) :
        (/\ LargeDominates(hLog[k].observations)
         /\ \E j \in 1..(k - 1) :
               /\ hLog[j].op = "Train"
               /\ hLog[j].groundTruth \in {WebBrowsing, VideoStreaming, FileDownload}
               /\ AllLarge(hLog[j].observations))
        => hLog[k].ret.type \in {VideoStreaming, FileDownload}

(***************************************************************************)
(* C24.  For every input whose header announces a RandOffset greater than  *)
(* its PaddingLen (so that RandOffset + PayloadLen exceeds the content     *)
(* region), DecodeCell returns an error; it never indexes outside the      *)
(* input.                                                                  *)
(***************************************************************************)
C24_OffsetBeyondPaddingIsAnError ==
    (/\ cDec # NoCell
     /\ Len(cEnc.bytes) >= HeaderWireLen
     /\ U16At(cEnc.bytes, 20) > U16At(cEnc.bytes, 18))
    => cDec.kind = "err"

(***************************************************************************)
(* C25.  For every cell whose payload is longer than PayloadLen, whose     *)
(* padding is longer than PaddingLen, or whose RandOffset leaves no room   *)
(* for the payload in the content region, EncodeCell returns an error and  *)
(* no bytes: no truncated payload is written, no index is out of range.    *)
(***************************************************************************)
C25_EncodeRejectsBadCells ==
    (/\ cEnc # NoCell
     /\ \/ Len(cCell.Payload) > cCell.PayloadLen
        \/ Len(cCell.Padding) > cCell.PaddingLen
        \/ cCell.RandOffset > cCell.PaddingLen)
    => cEnc.kind = "err"

(***************************************************************************)
(* C26.  Every cell handed to ScheduleCell is enqueued, then becomes       *)
(* eligible (its send time is reached), then is dequeued: GetNextCell      *)
(* returns it exactly once, it is never lost and never returned twice;     *)
(* and when time goes on, the caller keeps polling and no more cells are   *)
(* enqueued, it is returned in the end.  The formula is the part about the *)
(* order of the three stages and the single return; the last part is       *)
(* C26_EventuallyReturned, for SpecSchedLive.                              *)
(***************************************************************************)
ReturnsOf(cell) ==
    {k \in 1..Len(sLog) : sLog[k].op = "GetNextCell" /\ sLog[k].cell = cell}
QueuedAt(cell) == {j \in 1..Len(sched.queue) : sched.queue[j] = cell}

C26_CellLifecycle ==
    \A i \in 1..Len(sLog) :
        sLog[i].op = "ScheduleCell" =>
            /\ Cardinality(ReturnsOf(sLog[i].cell))
                  + Cardinality(QueuedAt(sLog[i].cell)) = 1
            /\ \A k \in ReturnsOf(sLog[i].cell) :
                  k > i /\ sLog[k].at >= sLog[i].sendTime

C26_EventuallyReturned ==
    \A n \in 0..(MaxScheduled - 1) :
        (\E i \in 1..Len(sLog) :
            sLog[i].op = "ScheduleCell" /\ sLog[i].cell.Seq = <<0, n>>)
        ~> (\E k \in 1..Len(sLog) :
            sLog[k].op = "GetNextCell" /\ sLog[k].cell.Seq = <<0, n>>)

(***************************************************************************)
(* C27.  Whatever calls of QueueApplicationData and iterations of the      *)
(* cover-traffic loop were made, the Data cells that share a CellID come   *)
(* out of GetNextCell in strictly increasing Seq order: a Data cell that   *)
(* GetNextCell returns has a greater Seq than every Data cell of the same  *)
(* CellID returned before it.  (wire holds the encodings of the cells      *)
(* returned before; CellID, Type and Seq are read from their headers.)     *)
(***************************************************************************)
WireData(id) ==
    {k \in 1..Len(wire) : wire[k][3] = TypeData /\ U16At(wire[k], 0) = id}

C27_SameIdInSeqOrder ==
    [][LET out == GetNextCell(sched, now)
       IN  (sched' = out.sched /\ out.cell # Nil
                /\ out.cell.cell.Type = TypeData)
           => \A k \in WireData(out.cell.cell.CellID) :
                 U32Less(U32At(wire[k], 4), out.cell.cell.Seq)]_vars

\* Three Data cells of one CellID were returned: two messages drew the same
\* CellID, and the cells of both came out.
C27_Witness == \E id \in CellIDSamples : Cardinality(WireData(id)) >= 3

(***************************************************************************)
(* C28.  The Seq values a Framer gives to Data cells go up by exactly one  *)
(* per cell, across calls of Fragment too: a call continues where the one  *)
(* before stopped, whatever the CellID.  CreateDummyCell neither uses the  *)
(* counter (the cover cell has Seq 0) nor advances it.                     *)
(***************************************************************************)
C28_SeqCountsDataCells ==
    [][LET n == Len(sched'.queue) - Len(sched.queue)
           new(j) == sched'.queue[Len(sched.queue) + j]
       IN  /\ mQueued' # mQueued =>
                /\ framer'.seq = U32Plus(framer.seq, n)
                /\ \A j \in 1..n : /\ new(j).Type = TypeData
                                   /\ new(j).Seq = U32Plus(framer.seq, j - 1)
           /\ mCover' # mCover =>
                /\ framer'.seq = framer.seq
                /\ n = 1
                /\ new(1).Type = TypeDummy
                /\ new(1).Seq = <<0, 0>>]_vars

\* A cover cell was created between two calls of Fragment, after the
\* counter had left 0, and the cells of both calls are in the queue with
\* the cover cell between them.
C28_Witness ==
    /\ Len(mQueued) = 2
    /\ \E i, j, k \in 1..Len(sched.queue) :
          /\ i < j /\ j < k
          /\ sched.queue[i].Type = TypeData
          /\ sched.queue[j].Type = TypeDummy
          /\ sched.queue[k].Type = TypeData
          /\ sched.queue[k].Seq = U32Inc(sched.queue[i].Seq)
          /\ sched.queue[k].CellID # sched.queue[i].CellID

(***************************************************************************)
(* C29.  CellID 0 is reserved for cover cells: every cell CreateDummyCell  *)
(* produces has CellID 0, and no Data cell Fragment produces has CellID 0, *)
(* whatever generateCellID returns.  The cells are looked at where the     *)
(* Manager hands them to the Scheduler.                                    *)
(***************************************************************************)
C29_DummyCellsHaveIdZero ==
    \A i \in 1..Len(sched.queue) :
        sched.queue[i].Type = TypeDummy => sched.queue[i].CellID = 0

C29_CellIdZeroIsReserved ==
    /\ C29_DummyCellsHaveIdZero
    /\ \A i \in 1..Len(sched.queue) :
          sched.queue[i].Type = TypeData => sched.queue[i].CellID # 0

\* A cover cell and a Data cell are in the queue together.
C29_Witness ==
    \E i, j \in 1..Len(sched.queue) :
        sched.queue[i].Type = TypeDummy /\ sched.queue[j].Type = TypeData

(***************************************************************************)
(* C30.  The Reassembler has a stream entry for a CellID exactly when a    *)
(* cell of that CellID has been accepted since the last accepted           *)
(* end-of-stream cell of that CellID (or since the start); accepting an    *)
(* end-of-stream cell deletes the entry.  So once every message Fragment   *)
(* produced has been processed in order, no stream state is left.          *)
(***************************************************************************)
Accepted(i) == rLog[i].res.kind # "err"
IsEos(i) == rLog[i].cell.Flags % 2 = 1

\* An accepted cell of id after which, itself included, no end-of-stream
\* cell of id was accepted.
AcceptedSinceEos(id) ==
    \E i \in 1..Len(rLog) :
        /\ rLog[i].cell.CellID = id
        /\ Accepted(i)
        /\ \A j \in i..Len(rLog) :
              (rLog[j].cell.CellID = id /\ Accepted(j)) => ~IsEos(j)

\* The CellIDs with an entry or with a call of ProcessCell: for any other
\* uint16 both sides of the equivalence are false.
StreamIds == DOMAIN streams \cup { rLog[i].cell.CellID : i \in 1..Len(rLog) }

C30_EntryIffAcceptedSinceEos ==
    \A id \in StreamIds : id \in DOMAIN streams <=> AcceptedSinceEos(id)

C30_NoStreamStateLeft ==
    /\ C30_EntryIffAcceptedSinceEos
    /\ (fCells # <<>> /\ fIdx = Len(fCells) /\ rStray = 0)
          => streams = EmptyMap

\* Two calls of Fragment, their cells processed in order.
C30_Witness ==
    /\ fIdx = Len(fCells) /\ rStray = 0
    /\ \E i \in 1..(Len(fCells) - 1) : fCells[i].CellID # fCells[i + 1].CellID

(***************************************************************************)
(* C31.  ProcessInboundTraffic on a well-formed cell that is not a Data    *)
(* cell (Handshake, Control, Dummy) returns success and changes nothing:   *)
(* the reassembly streams, the inbound buffer, the observation history and *)
(* the scheduler's queue are as before the call.                           *)
(***************************************************************************)
C31_NonDataIsIgnored ==
    [][(fedLog' # fedLog /\ fedLog'[Len(fedLog')] \in NonDataSources) =>
          /\ mRet' = [kind |-> "done"]
          /\ ~crashed'
          /\ streams' = streams
          /\ mgr' = mgr
          /\ sched' = sched
          /\ framer' = framer]_vars

\* The call was made with a stream open, a message buffered, observations
\* recorded and a cell queued.
C31_Witness ==
    /\ fedLog # <<>>
    /\ fedLog[Len(fedLog)] \in NonDataSources
    /\ mRet = [kind |-> "done"]
    /\ streams # EmptyMap
    /\ mgr.inboundQueue # <<>>
    /\ mgr.observationQueue # <<>>
    /\ sched.queue # <<>>

(***************************************************************************)
(* C32.  QueueApplicationData accepts every input: Fragment terminates,    *)
(* every cell it produces has a payload that is not empty, the payloads    *)
(* in Seq order are the input, byte for byte, and every cell produced is   *)
(* in the Scheduler's queue when the call returns.                         *)
(***************************************************************************)
C32_QueueAcceptsAndFragments ==
    [][mQueued' # mQueued =>
        LET data == mQueued'[Len(mQueued')]
            old  == Len(sched.queue)
            n    == Len(sched'.queue) - old
            new  == [j \in 1..n |-> sched'.queue[old + j]]
        IN  /\ mRet' = [kind |-> "queued"]
            /\ ~crashed'
            /\ n >= 0
            /\ framer'.seq = U32Plus(framer.seq, n)
            /\ SubSeq(sched'.queue, 1, old) = sched.queue
            /\ \A j \in 1..n :
                  /\ new[j].Payload # <<>>
                  /\ new[j].PayloadLen = Len(new[j].Payload)
                  /\ j > 1 => new[j].Seq = U32Inc(new[j - 1].Seq)
            /\ MessageData(new) = data]_vars

\* A two-byte message was queued as two cells of one byte each.
C32_Witness ==
    /\ mRet = [kind |-> "queued"]
    /\ mQueued = << <<72, 101>> >>
    /\ Len(sched.queue) = 2
    /\ \A j \in 1..2 : Len(sched.queue[j].Payload) = 1

(***************************************************************************)
(* C33.  Each iteration of the cover-traffic loop adds exactly one cell to *)
(* the Scheduler's queue, of type Dummy, with CellID 0 and PayloadLen 0,   *)
(* and changes neither the inbound buffer, the reassembly streams, the     *)
(* Framer's seq counter, the observation history nor the active profile.   *)
(***************************************************************************)
C33_CoverAddsOneDummy ==
    [][mCover' # mCover =>
        LET old == Len(sched.queue)
        IN  /\ Len(sched'.queue) = old + 1
            /\ SubSeq(sched'.queue, 1, old) = sched.queue
            /\ sched'.queue[old + 1].Type = TypeDummy
            /\ sched'.queue[old + 1].CellID = 0
            /\ sched'.queue[old + 1].PayloadLen = 0
            /\ sched'.queue[old + 1].Payload = <<>>
            /\ mgr'.inboundQueue = mgr.inboundQueue
            /\ mgr'.observationQueue = mgr.observationQueue
            /\ mgr'.profile = mgr.profile
            /\ streams' = streams
            /\ framer' = framer]_vars

\* An iteration has run, and there are an open stream, buffered bytes and
\* observations it could have touched.
C33_Witness ==
    /\ mCover = 1
    /\ Len(sched.queue) = 1
    /\ streams # EmptyMap
    /\ mgr.inboundQueue # <<>>
    /\ Len(mgr.observationQueue) = 2
    /\ Len(fedLog) = 2

(***************************************************************************)
(* C34.  An iteration of the profiling loop that finds fewer than ten      *)
(* observations changes nothing.  With ten or more it runs Predict on the  *)
(* history, switches the profile exactly when the predicted class is not   *)
(* the class of the active profile, and ends with the history empty.  An   *)
(* iteration is the steps of the profiling process between Lock and        *)
(* Unlock: the formula says what its first step decides, that the call of  *)
(* SetProfile it makes is not a call that waits for the iteration's own    *)
(* lock, and what holds when it ends.                                      *)
(***************************************************************************)
ProfilingStep ==
    /\ pc["profiling"].op = "startDynamicProfilingLoop"
    /\ pc["profiling"].at = "body"
    /\ pc'["profiling"] # pc["profiling"]

ProfilingEnds ==
    /\ pc["profiling"].at = "clear"
    /\ pc'["profiling"].at = "ticker"

\* The parts of the claim other than the switch itself.
C34_IterationFrame ==
    [][/\ (ProfilingStep /\ Len(mgr.observationQueue) < MinObservations) =>
            /\ mgr' = mgr /\ framer' = framer /\ sched' = sched
            /\ streams' = streams
            /\ pc'["profiling"] = ProfilingLoop
            /\ lock' = "none"
       /\ (/\ ProfilingStep
           /\ Len(mgr.observationQueue) >= MinObservations
           /\ Predict(mgr.observationQueue).type = GetProfileType(mgr.profile)) =>
            /\ mgr' = mgr /\ framer' = framer /\ sched' = sched
            /\ pc'["profiling"].at = "clear"
       /\ ProfilingEnds => mgr'.observationQueue = <<>>]_vars

C34_ProfilingIteration ==
    /\ C34_IterationFrame
    /\ [][(/\ ProfilingStep
            /\ Len(mgr.observationQueue) >= MinObservations
            /\ Predict(mgr.observationQueue).type # GetProfileType(mgr.profile)) =>
             /\ pc'["profiling"].op = "SetProfile"
             /\ pc'["profiling"].arg =
                    GetProfile(Predict(mgr.observationQueue).type)
             /\ ~(pc'["profiling"].at = "lock" /\ lock' = "profiling")]_vars

\* An iteration that found ten observations of the active profile's class
\* has ended.
C34_Witness ==
    /\ pc["profiling"] = ProfilingLoop
    /\ mgr.observationQueue = <<>>
    /\ Len(fedLog) = 1

(***************************************************************************)
(* C35.  After NewHMMClassifier and after any sequence of Train calls,     *)
(* every emission row and every transition row of every state has entries  *)
(* that are strictly positive and sum to 1, the rows of the states that    *)
(* were never a ground truth included.                                     *)
(***************************************************************************)
ProbAdd(a, b) ==
    [n |-> PolyAdd(PolyMul(a.n, b.d), PolyMul(b.n, a.d)), d |-> PolyMul(a.d, b.d)]

RECURSIVE RowSum(_)
RowSum(row) ==
    IF Len(row) = 1 THEN row[1] ELSE ProbAdd(Head(row), RowSum(Tail(row)))

ProbOne == [n |-> <<1>>, d |-> <<1>>]

RowIsDistribution(row) ==
    /\ \A k \in 1..Len(row) : PolySign(row[k].n) = 1 /\ PolySign(row[k].d) = 1
    /\ ProbEqual(RowSum(row), ProbOne)

C35_RowsArePositive ==
    \A i \in 1..NumStates :
        \A k \in 1..NumBuckets :
            /\ PolySign(hmm.EmissionProbs[i][k].n) = 1
            /\ PolySign(hmm.TransitionProbs[i][k].n) = 1

C35_RowsAreDistributions ==
    \A i \in 1..NumStates :
        /\ RowIsDistribution(hmm.EmissionProbs[i])
        /\ RowIsDistribution(hmm.TransitionProbs[i])

\* The rows of the states that were a ground truth with two observations
\* or more are distributions.
C35_TrainedRowsAreDistributions ==
    \A i \in 1..NumStates :
        /\ SumOf(hmm.EmissionCounts[i]) > 0 =>
                RowIsDistribution(hmm.EmissionProbs[i])
        /\ SumOf(hmm.TransitionCounts[i]) > 0 =>
                RowIsDistribution(hmm.TransitionProbs[i])

(***************************************************************************)
(* C36.  Train(observations, c) with a sequence that is not empty adds one *)
(* to the emission count of c at the bucket of each observation, adds      *)
(* len(observations) - 1 to the count of the transition from c to c and    *)
(* changes no count of another class; with an empty sequence it returns an *)
(* error and leaves the counts and the probability tables as they were.    *)
(* The classes are the states of the classifier; an observation that is no *)
(* bucket (3 and above) counts for the transitions only.                   *)
(***************************************************************************)
TrainStep == hLog' # hLog /\ hLog'[Len(hLog')].op = "Train"

\* What the claim asks of the call e made on the tables h, leaving h2.
TrainCounts(e, h, h2) ==
    IF e.observations = <<>>
    THEN e.ret.kind = "err" /\ h2 = h
    ELSE /\ e.ret = [kind |-> "done"]
         /\ \A i \in 1..NumStates :
              IF States[i] = e.groundTruth
              THEN /\ \A b \in 1..NumBuckets :
                        h2.EmissionCounts[i][b] =
                          h.EmissionCounts[i][b]
                            + Cardinality({ t \in 1..Len(e.observations) :
                                              e.observations[t] = b - 1 })
                   /\ \A j \in 1..NumStates :
                        h2.TransitionCounts[i][j] =
                          h.TransitionCounts[i][j]
                            + (IF j = i THEN Len(e.observations) - 1 ELSE 0)
              ELSE /\ h2.EmissionCounts[i] = h.EmissionCounts[i]
                   /\ h2.TransitionCounts[i] = h.TransitionCounts[i]

\* The statement for every TrafficType, Dynamic included, which is no state
\* of the classifier.
TrainCountsAnyType ==
    [][TrainStep => TrainCounts(hLog'[Len(hLog')], hmm, hmm')]_vars

InverseCdf(w, r) ==
    IF r <= w[WebBrowsing] THEN WebBrowsing
    ELSE IF r <= w[WebBrowsing] + w[VideoStreaming] THEN VideoStreaming
    ELSE FileDownload

C37_SameDrawSameClass ==
    \A i, j \in 1..Len(selLog) :
        (selLog[i].weights = selLog[j].weights /\ selLog[i].r = selLog[j].r)
            => selLog[i].ret = selLog[j].ret

C37_SelectIsAFunction ==
    /\ C37_SameDrawSameClass
    /\ \A i \in 1..Len(selLog) :
          Cardinality(DOMAIN selLog[i].weights) > 1 =>
              selLog[i].ret = InverseCdf(selLog[i].weights, selLog[i].r)

\* Two runs on the weights of the Dynamic profile with the same draw.
C37_Witness ==
    /\ Len(selLog) = 2
    /\ Cardinality(DOMAIN selLog[1].weights) > 1
    /\ selLog[1].weights = selLog[2].weights
    /\ selLog[1].r = selLog[2].r

(***************************************************************************)
(* C38.  Every cell Fragment or CreateDummyCell builds has an encoded      *)
(* length 20 + PayloadLen + PaddingLen of at least MinCellSize and at most *)
(* MaxCellSize of the framer's profile, for every payload length and total *)
(* size drawn, also when the padding is clamped to zero.                   *)
(***************************************************************************)
EncodedLen(cell) == CellHeaderLen + cell.PayloadLen + cell.PaddingLen

SizeInRange(cell) ==
    /\ EncodedLen(cell) >= framer.profile.MinCellSize
    /\ EncodedLen(cell) <= framer.profile.MaxCellSize
    /\ Len(cell.Payload) = cell.PayloadLen
    /\ Len(cell.Padding) = cell.PaddingLen

C39_ReturnedBytesStay == Flatten(mViews) = mRead

\* A read has returned bytes and a later call has completed a message.
C39_Witness ==
    /\ mViews # <<>>
    /\ Len(mDone) >= 2
    /\ fedLog # <<>>
    /\ mRet.kind = "done"
    /\ Len(mgr.inboundQueue) > 0

(***************************************************************************)
(* C40.  DecodeCell compares the length of the content region with the     *)
(* true sum PayloadLen + PaddingLen and finds the end of the payload at    *)
(* the true sum RandOffset + PayloadLen, not with these sums reduced       *)
(* modulo 2^16: an input whose PayloadLen and PaddingLen fields sum to     *)
(* 65536 or more is rejected with an error and never yields a cell.        *)
(***************************************************************************)
\* The input handed to DecodeCell has its two length fields, and they sum
\* to 2^16 or more.
FieldsOverflow ==
    /\ Len(cEnc.bytes) >= CellHeaderLen
    /\ U16At(cEnc.bytes, 16) + U16At(cEnc.bytes, 18) >= U16

C40_OverflowNeverYieldsCell ==
    (cDec # NoCell /\ FieldsOverflow) => cDec.kind # "ok"

C40_OverflowIsRejected ==
    (cDec # NoCell /\ FieldsOverflow) => cDec.kind = "err"

\* The fields sum to 2^16 or more and the content region has the length of
\* the sum reduced modulo 2^16.
C40_Witness ==
    /\ cDec # NoCell
    /\ FieldsOverflow
    /\ Len(cEnc.bytes) - CellHeaderLen
         = (U16At(cEnc.bytes, 16) + U16At(cEnc.bytes, 18)) % U16

=============================================================================
